---- MODULE Spec2Model ----
(***************************************************************************)
(* Graph construction and metrics engine of kvrancic/spine                 *)
(* (backend/src/graph, backend/src/sentiment, backend/src/metrics,         *)
(* backend/src/pipeline.py).                                               *)
(*                                                                         *)
(* Numbers.  Python floats are modelled in fixed point: a real x is the    *)
(* integer x * SCALE (four decimal digits).  Dates are whole day numbers,  *)
(* NoDate stands for Python's None.  An address is a record                *)
(* [local, domain], so that str.endswith("@enron.com") is a test of the    *)
(* domain part.  analyze_sentiment(body) is a library call (TextBlob); the *)
(* body of a message is represented by the polarity TextBlob returns for   *)
(* it.                                                                     *)
(***************************************************************************)
EXTENDS Integers, Sequences, FiniteSets, TLC

VARIABLES
    emails,        \* list[ParsedEmail] handed to the pipeline / build_graph
    min_emails,    \* build_graph parameter
    enron_only,    \* build_graph parameter
    pc,            \* position in run_pipeline / of the caller
    edge_data,     \* build_graph local: (sender, recipient) -> aggregate
    node_sent,     \* build_graph local
    node_received, \* build_graph local
    G,             \* the nx.DiGraph
    coef,          \* coefficients of the last weighted call
    libs,          \* outcomes of the numerical library calls of this run
    communities,   \* result of detect_communities
    centrality,    \* result of compute_centrality
    dms,           \* result of compute_dead_man_switch
    waste,         \* result of compute_waste
    health,        \* result of compute_health
    err,           \* exception that left the current call, "none" if none
    trace,         \* names of the stages completed so far, in order
    dms_node,      \* compute_dead_man_switch local `node`: <<node>> inside the loop
    G_removed      \* compute_dead_man_switch local: the graph object of line 51

vars == <<emails, min_emails, enron_only, pc, edge_data, node_sent,
          node_received, G, coef, libs, communities, centrality, dms, waste,
          health, err, trace, dms_node, G_removed>>

----------------------------------------------------------------------------
(* Bounds of the model *)

MaxEmails == 3
MaxThreshold == 3

(* Fixed point *)
SCALE == 10000
NoDate == 0
NEUTRAL == 5000
SubjectCap == 50

Min(a, b) == IF a < b THEN a ELSE b
Max(a, b) == IF a > b THEN a ELSE b
Abs(a) == IF a < 0 THEN 0 - a ELSE a
Range(s) == {s[i] : i \in DOMAIN s}

(* Python round(): nearest integer to n/d (d > 0), ties to even. *)
RoundDiv(n, d) ==
    LET q == n \div d
        r == n % d
    IN  IF 2 * r < d THEN q
        ELSE IF 2 * r > d THEN q + 1
        ELSE IF q % 2 = 0 THEN q ELSE q + 1

RECURSIVE SumSeq(_)
SumSeq(s) == IF s = <<>> THEN 0 ELSE Head(s) + SumSeq(Tail(s))

RECURSIVE SumOver(_, _)
SumOver(S, f) ==
    IF S = {} THEN 0
    ELSE LET x == CHOOSE y \in S : TRUE IN f[x] + SumOver(S \ {x}, f)

SetMax(S) == CHOOSE x \in S : \A y \in S : y <= x

----------------------------------------------------------------------------
(* Addresses and messages *)

Addr(l, d) == [local |-> l, domain |-> d]
A == Addr("a", "enron.com")
B == Addr("b", "enron.com")
C == Addr("c", "enron.com")
X == Addr("x", "gmail.com")
Addrs == {A, B, C, X}

(* Variant: every address passes. *)
EndsWithEnron_Any(addr) == TRUE

EndsWithEnron(addr) == addr.domain = "enron.com"

Pairs == Addrs \X Addrs

(* ParsedEmail (parser/email_parser.py); body is represented by polarity. *)
Email(s, to, cc, bcc, subj, d, pol) ==
    [sender |-> s, recipients_to |-> to, recipients_cc |-> cc,
     recipients_bcc |-> bcc, subject |-> subj, date |-> d, polarity |-> pol]

----------------------------------------------------------------------------
(* The graph: nx.DiGraph with attribute dictionaries.  `has` is the set of  *)
(* the optional keys present in an attribute dictionary.                    *)

EdgeDefault ==
    [email_count |-> 0, first_email |-> NoDate, last_email |-> NoDate,
     subjects |-> <<>>, has |-> {}, weight |-> 0, norm_frequency |-> 0,
     norm_recency |-> 0, sentiment |-> 0, sentiment_count |-> 0,
     sentiment_asymmetry |-> 0]

NodeDefault ==
    [total_sent |-> 0, total_received |-> 0, has |-> {},
     avg_sent_sentiment |-> 0, avg_received_sentiment |-> 0]

EmptyGraph ==
    [nodes |-> {}, edges |-> {}, e |-> [p \in Pairs |-> EdgeDefault],
     n |-> [a \in Addrs |-> NodeDefault]]

NumberOfNodes(g) == Cardinality(g.nodes)
NumberOfEdges(g) == Cardinality(g.edges)
HasEdge(g, u, v) == <<u, v>> \in g.edges
Successors(g, u) == {v \in g.nodes : <<u, v>> \in g.edges}
Predecessors(g, u) == {v \in g.nodes : <<v, u>> \in g.edges}

(* G.add_edge(src, tgt, **attrs): adds both endpoints and the edge. *)
AddEdge(g, src, tgt, attrs) ==
    [g EXCEPT !.nodes = @ \cup {src, tgt},
              !.edges = @ \cup {<<src, tgt>>},
              !.e[<<src, tgt>>] = attrs]

----------------------------------------------------------------------------
(* graph/builder.py: build_graph *)

EdgeDataDefault ==
    [email_count |-> 0, first_email |-> NoDate, last_email |-> NoDate,
     subjects |-> <<>>]

EmptyAcc ==
    [edge_data |-> [p \in Pairs |-> EdgeDataDefault],
     node_sent |-> [a \in Addrs |-> 0],
     node_received |-> [a \in Addrs |-> 0]]

AllRecipients(email) ==
    email.recipients_to \o email.recipients_cc \o email.recipients_bcc

(* Variant: the self-email test never fires. *)
IsSelfEmail_Never(sender, recipient) == FALSE

(* The self-email test of the recipient loop. *)
IsSelfEmail(sender, recipient) == sender = recipient

(* One (sender, recipient) delivery: lines 62-76. *)
Accumulate(acc, email, recipient) ==
    LET key == <<email.sender, recipient>>
        data == acc.edge_data[key]
        first == IF email.date # NoDate
                    /\ (data.first_email = NoDate \/ email.date < data.first_email)
                 THEN email.date ELSE data.first_email
        last == IF email.date # NoDate
                   /\ (data.last_email = NoDate \/ email.date > data.last_email)
                THEN email.date ELSE data.last_email
        subs == IF email.subject # "" THEN Append(data.subjects, email.subject)
                ELSE data.subjects
    IN  [edge_data |-> [acc.edge_data EXCEPT ![key] =
                          [email_count |-> data.email_count + 1,
                           first_email |-> first, last_email |-> last,
                           subjects |-> subs]],
         node_sent |-> [acc.node_sent EXCEPT ![email.sender] = @ + 1],
         node_received |-> [acc.node_received EXCEPT ![recipient] = @ + 1]]

(* Body of the recipient loop: lines 55-82. *)
ProcessRecipient(acc, email, recipient, eo) ==
    IF eo /\ ~EndsWithEnron(recipient) THEN acc
    ELSE IF IsSelfEmail(email.sender, recipient) THEN acc
    ELSE Accumulate(acc, email, recipient)

(* The loop of line 55: the body has run for one recipient (leaving the     *)
(* accumulators as they are if the recipient is skipped) before the next    *)
(* one is taken.                                                            *)
RECURSIVE ProcessRecipients(_, _, _, _)
ProcessRecipients(acc, email, rs, eo) ==
    IF rs = <<>> THEN acc
    ELSE LET after == ProcessRecipient(acc, email, Head(rs), eo)
         IN  IF after = acc THEN ProcessRecipients(acc, email, Tail(rs), eo)
             ELSE ProcessRecipients(after, email, Tail(rs), eo)

(* Body of the message loop: lines 46-82. *)
ProcessEmail(acc, email, eo) ==
    IF eo /\ ~EndsWithEnron(email.sender) THEN acc
    ELSE ProcessRecipients(acc, email, AllRecipients(email), eo)

RECURSIVE ProcessEmails(_, _, _)
ProcessEmails(acc, es, eo) ==
    IF es = <<>> THEN acc
    ELSE ProcessEmails(ProcessEmail(acc, Head(es), eo), Tail(es), eo)

(* Variant: a strict threshold test. *)
MeetsThreshold_Strict(count, threshold) == count > threshold

(* The threshold test of line 90. *)
MeetsThreshold(count, threshold) == count >= threshold

(* Keys of edge_data: a defaultdict entry exists once it has been touched. *)
EdgeDataKeys(ed) == {p \in Pairs : ed[p].email_count > 0}

MaterializedEdges(ed, threshold) ==
    {p \in EdgeDataKeys(ed) : MeetsThreshold(ed[p].email_count, threshold)}

(* Variant: every address of an aggregated pair becomes a node. *)
MaterializedNodes_AllSeen(ed, threshold) ==
    {a \in Addrs : \E p \in EdgeDataKeys(ed) : a = p[1] \/ a = p[2]}

(* Nodes of the graph after the add_edge loop: lines 89-99. *)
MaterializedNodes(ed, threshold) ==
    {a \in Addrs : \E p \in MaterializedEdges(ed, threshold) :
                       a = p[1] \/ a = p[2]}

CapSubjects(subs) == SubSeq(subs, 1, Min(Len(subs), SubjectCap))

(* Variant: a node's total is summed over its materialised edges. *)
TotalSent_FromEdges(acc, es, node_id) ==
    SumOver({p \in es : p[1] = node_id},
            [p \in Pairs |-> acc.edge_data[p].email_count])

(* node_sent.get(node_id, 0) and node_received.get(node_id, 0): lines 106-107. *)
TotalSent(acc, es, node_id) == acc.node_sent[node_id]

TotalReceived(acc, es, node_id) == acc.node_received[node_id]

(* Lines 84-113: materialise the edges, then set the node attributes. *)
Materialize(acc, threshold) ==
    LET es == MaterializedEdges(acc.edge_data, threshold)
        ns == MaterializedNodes(acc.edge_data, threshold)
    IN  [nodes |-> ns,
         edges |-> es,
         e |-> [p \in Pairs |->
                  IF p \in es
                  THEN [EdgeDefault EXCEPT
                          !.email_count = acc.edge_data[p].email_count,
                          !.first_email = acc.edge_data[p].first_email,
                          !.last_email = acc.edge_data[p].last_email,
                          !.subjects = CapSubjects(acc.edge_data[p].subjects)]
                  ELSE EdgeDefault],
         n |-> [a \in Addrs |->
                  IF a \in ns
                  THEN [NodeDefault EXCEPT
                          !.total_sent = TotalSent(acc, es, a),
                          !.total_received = TotalReceived(acc, es, a)]
                  ELSE NodeDefault]]

build_graph(es, threshold, eo) ==
    Materialize(ProcessEmails(EmptyAcc, es, eo), threshold)

----------------------------------------------------------------------------
(* graph/weights.py: compute_weights *)

(* Default coefficients (alpha, beta, gamma, delta) and decay, as fixed      *)
(* point.                                                                    *)
ALPHA == 4000
BETA == 2000
GAMMA == 2000
DELTA == 2000
DECAY_DAYS == 180

DefaultCoef == [alpha |-> ALPHA, beta |-> BETA, gamma |-> GAMMA, delta |-> DELTA]

(* SCALE * e^(days/decay) for days >= 0, by the exponential series in fixed *)
(* point: term_k = term_(k-1) * days / (decay * k).                         *)
RECURSIVE ExpSeries(_, _, _, _)
ExpSeries(term, k, days, decay) ==
    IF term = 0 THEN 0
    ELSE term + ExpSeries((term * days) \div (decay * k), k + 1, days, decay)

ExpPos(days, decay) == ExpSeries(SCALE, 1, days, decay)

(* np.exp(-days_ago / decay_days) *)
Recency(days_ago, decay) ==
    IF days_ago >= 0 THEN (SCALE * SCALE) \div ExpPos(days_ago, decay)
    ELSE ExpPos(0 - days_ago, decay)

(* Lines 32-43: the reference date when none is passed. *)
LatestLastEmail(g) ==
    LET ds == {g.e[p].last_email : p \in g.edges} \ {NoDate}
    IN  IF ds = {} THEN NoDate ELSE SetMax(ds)

(* Variant: the current time whenever no date is passed. *)
ReferenceDate_Now(g, reference_date, now) ==
    IF reference_date # NoDate THEN reference_date ELSE now

ReferenceDate(g, reference_date, now) ==
    IF reference_date # NoDate THEN reference_date
    ELSE IF LatestLastEmail(g) # NoDate THEN LatestLastEmail(g)
    ELSE now

(* Lines 49-60 *)
EdgeRecency(g, p, ref, decay) ==
    IF g.e[p].last_email # NoDate
    THEN Recency(ref - g.e[p].last_email, decay)
    ELSE NEUTRAL

(* Lines 62-68 *)
MaxCount(g) == SetMax({g.e[p].email_count : p \in g.edges})

NormFreq(g, p) ==
    IF MaxCount(g) > 0 THEN (g.e[p].email_count * SCALE) \div MaxCount(g)
    ELSE 0

(* Variant: the neutral default even when the attribute is there. *)
GetSentiment_Neutral(d, default) == default

(* data.get(key, default) for the optional edge attributes *)
GetSentiment(d, default) == IF "sentiment" \in d.has THEN d.sentiment ELSE default

(* Lines 73-82: response_efficiency is written by no component. *)
CompositeWeight(c, nf, nr, sentiment, response_eff) ==
    (c.alpha * nf + c.beta * nr + c.gamma * sentiment + c.delta * response_eff)
        \div SCALE

compute_weights(g, c, reference_date, decay, now) ==
    IF NumberOfEdges(g) = 0 THEN g
    ELSE LET ref == ReferenceDate(g, reference_date, now)
         IN  [g EXCEPT !.e = [p \in Pairs |->
                 IF p \in g.edges
                 THEN LET nf == NormFreq(g, p)
                          nr == EdgeRecency(g, p, ref, decay)
                      IN  [g.e[p] EXCEPT
                             !.weight = CompositeWeight(c, nf, nr,
                                            GetSentiment(g.e[p], NEUTRAL), NEUTRAL),
                             !.norm_frequency = nf,
                             !.norm_recency = nr,
                             !.has = @ \cup {"weight", "norm_frequency",
                                             "norm_recency"}]
                 ELSE g.e[p]]]

----------------------------------------------------------------------------
(* sentiment/analyzer.py: enrich_graph_with_sentiment *)

(* Variant: a recipient listed twice in one message gives one entry. *)
Occurrences_AtMostOnce(s, x) == IF x \in Range(s) THEN 1 ELSE 0

RECURSIVE Occurrences(_, _)
Occurrences(s, x) ==
    IF s = <<>> THEN 0
    ELSE (IF Head(s) = x THEN 1 ELSE 0) + Occurrences(Tail(s), x)

(* edge_sentiments[(src, tgt)] of lines 51-65, as (sum, len) of the list:   *)
(* one entry per occurrence of tgt among the recipients of a message of src. *)
RECURSIVE EdgeSentiments(_, _, _)
EdgeSentiments(es, src, tgt) ==
    IF es = <<>> THEN [sum |-> 0, len |-> 0]
    ELSE LET rest == EdgeSentiments(Tail(es), src, tgt)
             m == Head(es)
             k == IF m.sender = src /\ src # tgt
                  THEN Occurrences(AllRecipients(m), tgt) ELSE 0
         IN  [sum |-> rest.sum + k * m.polarity, len |-> rest.len + k]

(* node_sent_sentiments[node]: one entry per message sent by node. *)
RECURSIVE NodeSentSentiments(_, _)
NodeSentSentiments(es, node) ==
    IF es = <<>> THEN [sum |-> 0, len |-> 0]
    ELSE LET rest == NodeSentSentiments(Tail(es), node)
             m == Head(es)
             k == IF m.sender = node THEN 1 ELSE 0
         IN  [sum |-> rest.sum + k * m.polarity, len |-> rest.len + k]

(* node_received_sentiments[node] *)
NodeReceivedSentiments(es, node) ==
    LET per == [s \in Addrs |-> EdgeSentiments(es, s, node)]
    IN  [sum |-> SumOver(Addrs, [s \in Addrs |-> per[s].sum]),
         len |-> SumOver(Addrs, [s \in Addrs |-> per[s].len])]

(* round(sum(l) / len(l), 4) if l else 0 *)
RoundedMean(l) == IF l.len > 0 THEN RoundDiv(l.sum, l.len) ELSE 0

(* Lines 67-73 *)
ApplyEdgeSentiment(g, es) ==
    [g EXCEPT !.e = [p \in Pairs |->
        LET l == EdgeSentiments(es, p[1], p[2])
        IN  IF l.len > 0 /\ p \in g.edges
            THEN [g.e[p] EXCEPT !.sentiment = RoundedMean(l),
                                !.sentiment_count = l.len,
                                !.has = @ \cup {"sentiment", "sentiment_count"}]
            ELSE g.e[p]]]

(* Lines 75-81 *)
ApplyNodeSentiment(g, es) ==
    [g EXCEPT !.n = [a \in Addrs |->
        IF a \in g.nodes
        THEN [g.n[a] EXCEPT
                !.avg_sent_sentiment = RoundedMean(NodeSentSentiments(es, a)),
                !.avg_received_sentiment =
                    RoundedMean(NodeReceivedSentiments(es, a)),
                !.has = @ \cup {"avg_sent_sentiment", "avg_received_sentiment"}]
        ELSE g.n[a]]]

(* Variant: the difference keeps its sign. *)
Asymmetry_Signed(forward_sentiment, reverse_sentiment) ==
    forward_sentiment - reverse_sentiment

(* round(abs(forward_sentiment - reverse_sentiment), 4): line 87 *)
Asymmetry(forward_sentiment, reverse_sentiment) ==
    Abs(forward_sentiment - reverse_sentiment)

(* Lines 83-87 *)
ApplyAsymmetry(g) ==
    [g EXCEPT !.e = [p \in Pairs |->
        IF p \in g.edges
        THEN LET forward == GetSentiment(g.e[p], 0)
                 reverse == IF <<p[2], p[1]>> \in g.edges
                            THEN GetSentiment(g.e[<<p[2], p[1]>>], 0) ELSE 0
             IN  [g.e[p] EXCEPT !.sentiment_asymmetry = Asymmetry(forward, reverse),
                                !.has = @ \cup {"sentiment_asymmetry"}]
        ELSE g.e[p]]]

enrich_graph_with_sentiment(g, es) ==
    ApplyAsymmetry(ApplyNodeSentiment(ApplyEdgeSentiment(g, es), es))

----------------------------------------------------------------------------
(* networkx graph algorithms used by the metrics *)

(* G.to_undirected(): u and v are adjacent when either direction exists. *)
Adjacent(g, u, v) == <<u, v>> \in g.edges \/ <<v, u>> \in g.edges
Neighbors(g, u) == {v \in g.nodes \ {u} : Adjacent(g, u, v)}
UndirectedEdges(g) == {{p[1], p[2]} : p \in {q \in g.edges : q[1] # q[2]}}

(* G.copy(); G.remove_node(node) *)
RemoveNode(g, node) ==
    [g EXCEPT !.nodes = @ \ {node},
              !.edges = {p \in @ : p[1] # node /\ p[2] # node}]

(* Variant: the "copy" is the same graph object. *)
GraphCopy_Alias(g) == [graph |-> g, shared |-> TRUE]

(* G.copy(): a graph object of its own, with the same nodes and edges. *)
GraphCopy(g) == [graph |-> g, shared |-> FALSE]

(* G.subgraph(members) *)
Subgraph(g, members) ==
    [g EXCEPT !.nodes = @ \cap members,
              !.edges = {p \in @ : p[1] \in members /\ p[2] \in members}]

(* nx.weakly_connected_components *)
RECURSIVE Grow(_, _)
Grow(g, S) ==
    LET T == S \cup {v \in g.nodes : \E u \in S : Adjacent(g, u, v)}
    IN  IF T = S THEN S ELSE Grow(g, T)

WeaklyConnectedComponents(g) == {Grow(g, {v}) : v \in g.nodes}

(* max(nx.weakly_connected_components(G), key=len) *)
LargestComponent(g) ==
    CHOOSE c \in WeaklyConnectedComponents(g) :
        \A d \in WeaklyConnectedComponents(g) : Cardinality(d) <= Cardinality(c)

(* Simple directed paths from the end of `path` to t. *)
RECURSIVE PathsFrom(_, _, _)
PathsFrom(g, path, t) ==
    LET last == path[Len(path)]
    IN  IF last = t THEN {path}
        ELSE UNION {PathsFrom(g, Append(path, v), t) :
                      v \in {w \in Successors(g, last) :
                                \A i \in 1..Len(path) : path[i] # w}}

(* Shortest paths by hop count (the unweighted betweenness of health,      *)
(* dead_man_switch and community). *)
ShortestPaths(g, s, t) ==
    LET ps == PathsFrom(g, <<s>>, t)
    IN  {q \in ps : \A r \in ps : Len(q) <= Len(r)}

Through(path, v) == \E i \in 2..(Len(path) - 1) : path[i] = v

(* Sum over s, t of sigma_st(v) / sigma_st, in fixed point. *)
RawBetweenness(g, v) ==
    LET pairs == {p \in g.nodes \X g.nodes :
                    p[1] # p[2] /\ p[1] # v /\ p[2] # v
                    /\ ShortestPaths(g, p[1], p[2]) # {}}
        frac == [p \in pairs |->
                   LET sp == ShortestPaths(g, p[1], p[2])
                   IN  (SCALE * Cardinality({q \in sp : Through(q, v)}))
                          \div Cardinality(sp)]
    IN  SumOver(pairs, frac)

(* nx.betweenness_centrality(G, normalized=True) on a DiGraph: the raw sum *)
(* is divided by (n-1)(n-2) when n > 2 and left as it is otherwise.        *)
BetweennessCentrality(g) ==
    LET n == NumberOfNodes(g)
    IN  [v \in g.nodes |->
           IF n > 2 THEN RawBetweenness(g, v) \div ((n - 1) * (n - 2))
           ELSE RawBetweenness(g, v)]

(* nx.density of a DiGraph: m / (n (n - 1)), as the pair (m, n(n-1)). *)
DensityNum(g) == NumberOfEdges(g)
DensityDen(g) == NumberOfNodes(g) * (NumberOfNodes(g) - 1)

(* Undirected hop distance inside the node set S (breadth-first layers). *)
RECURSIVE Layers(_, _, _, _, _)
Layers(g, S, seen, frontier, d) ==
    IF frontier = {} THEN [v \in {} |-> 0]
    ELSE LET next == {v \in S \ seen : \E u \in frontier : Adjacent(g, u, v)}
             rest == Layers(g, S, seen \cup next, next, d + 1)
         IN  [v \in frontier \cup DOMAIN rest |->
                IF v \in frontier THEN d ELSE rest[v]]

DistancesFrom(g, S, s) == Layers(g, S, {s}, {s}, 0)

(* nx.average_shortest_path_length on a connected undirected graph with   *)
(* node set S: 0 for a single node, else the mean over ordered pairs.      *)
AverageShortestPathLength(g, S) ==
    LET n == Cardinality(S)
        total == SumOver(S, [s \in S |->
                     SumOver(S, DistancesFrom(g, S, s))])
    IN  IF n = 1 THEN 0 ELSE (SCALE * total) \div (n * (n - 1))

(* nx.clustering of one node of the undirected projection. *)
Clustering(g, v) ==
    LET nb == Neighbors(g, v)
        d == Cardinality(nb)
        links == Cardinality({e \in UndirectedEdges(g) : e \subseteq nb})
    IN  IF d < 2 THEN 0 ELSE (SCALE * 2 * links) \div (d * (d - 1))

(* nx.average_clustering(G_undirected) *)
AverageClustering(g) ==
    SumOver(g.nodes, [v \in g.nodes |-> Clustering(g, v)])
        \div NumberOfNodes(g)

(* math.log10 in fixed point.  y * y for y in fixed point, without leaving *)
(* 32 bits.                                                                *)
SquareFp(y) ==
    LET h == y \div 100
        l == y % 100
    IN  h * h + (2 * h * l) \div 100 + (l * l) \div SCALE

RECURSIVE Decades(_)
Decades(x) == IF x >= 10 * SCALE THEN 1 + Decades(x \div 10) ELSE 0

RECURSIVE Mantissa(_)
Mantissa(x) == IF x >= 10 * SCALE THEN Mantissa(x \div 10) ELSE x

(* Binary digits of log10(y), 1 <= y < 10: square, and emit a digit when   *)
(* the square passes 10.                                                   *)
RECURSIVE LogBits(_, _)
LogBits(y, bit) ==
    IF bit = 0 THEN 0
    ELSE LET y2 == SquareFp(y)
         IN  IF y2 >= 10 * SCALE THEN bit + LogBits(y2 \div 10, bit \div 2)
             ELSE LogBits(y2, bit \div 2)

(* SCALE * log10(num / den) for num / den >= 1 *)
Log10(num, den) ==
    LET x == (num * SCALE) \div den
    IN  Decades(x) * SCALE + LogBits(Mantissa(x), SCALE \div 2)

(* Sorted list of the values of f (sorted(betweenness.values())). *)
RECURSIVE SortedValues(_, _)
SortedValues(S, f) ==
    IF S = {} THEN <<>>
    ELSE LET x == CHOOSE y \in S : \A z \in S : f[y] <= f[z]
         IN  <<f[x]>> \o SortedValues(S \ {x}, f)

----------------------------------------------------------------------------
(* metrics/health.py: compute_health *)

W_HEALTH == 2500
DefaultHealthW ==
    [connectivity |-> W_HEALTH, bottleneck |-> W_HEALTH, silo |-> W_HEALTH,
     efficiency |-> W_HEALTH]

(* A reported number with one decimal is kept in tenths: 100.0 is 1000.    *)
Tenths(v) == 10 * v

(* round(x * 100, 1) of a fixed-point x, in tenths *)
Percent1(x) == RoundDiv(x, 10)

(* communities.get("partition", {}) and partition.get(node) (None is -1) *)
NoCommunities == [partition |-> <<>>, communities |-> <<>>, bridge_nodes |-> {}]
PartitionGet(partition, node) ==
    IF node \in DOMAIN partition THEN partition[node] ELSE 0 - 1

DensityScore(g) ==
    IF DensityNum(g) > 0
    THEN Min(SCALE, Log10(100 * DensityNum(g) + DensityDen(g), DensityDen(g)) \div 2)
    ELSE 0

GccRatio(g) == (SCALE * Cardinality(LargestComponent(g))) \div NumberOfNodes(g)

Connectivity(g) == (4000 * DensityScore(g) + 6000 * GccRatio(g)) \div SCALE

RECURSIVE GiniNumerator(_, _, _)
GiniNumerator(vals, i, n) ==
    IF i > Len(vals) THEN 0
    ELSE (2 * i - n - 1) * vals[i] + GiniNumerator(vals, i + 1, n)

Gini(vals) ==
    LET n == Len(vals)
    IN  IF n > 0 /\ SumSeq(vals) > 0
        THEN (SCALE * GiniNumerator(vals, 1, n)) \div (n * SumSeq(vals))
        ELSE 0

BottleneckRisk(g) ==
    LET betweenness == BetweennessCentrality(g)
        max_betweenness == IF g.nodes # {}
                           THEN SetMax({betweenness[v] : v \in g.nodes}) ELSE 0
        gini == Gini(SortedValues(g.nodes, betweenness))
    IN  (5000 * max_betweenness + 5000 * gini) \div SCALE

SiloScore(g, comm) ==
    LET partition == comm.partition
        intra == Cardinality({p \in g.edges :
                    PartitionGet(partition, p[1]) = PartitionGet(partition, p[2])})
        inter == Cardinality({p \in g.edges :
                    PartitionGet(partition, p[1]) # PartitionGet(partition, p[2])})
        total == intra + inter
    IN  IF DOMAIN partition # {}
        THEN IF total > 0 THEN SCALE - (SCALE * inter) \div total ELSE SCALE
        ELSE NEUTRAL

(* nx.average_shortest_path_length(gcc_subgraph): NetworkXError is raised *)
(* for a graph that is not connected.                                      *)
AveragePath(g, S) ==
    LET connected == \A v \in S : Grow(Subgraph(g, S), {v}) = S
    IN  IF connected THEN [defined |-> TRUE, value |-> AverageShortestPathLength(g, S)]
        ELSE [defined |-> FALSE, value |-> 0]

PathScore(avg) ==
    IF avg.defined THEN Max(0, SCALE - (avg.value - 2 * SCALE) \div 8)
    ELSE NEUTRAL

Efficiency(g) ==
    (6000 * PathScore(AveragePath(g, LargestComponent(g)))
       + 4000 * AverageClustering(g)) \div SCALE

HealthRaw(w, connectivity, bottleneck_risk, silo_score, efficiency) ==
    (w.connectivity * connectivity
       + w.bottleneck * (SCALE - bottleneck_risk)
       + w.silo * (SCALE - silo_score)
       + w.efficiency * efficiency) \div SCALE

(* Variant: no clamp. *)
HealthScore_NoClamp(health_raw) == Percent1(health_raw)

(* round(health_raw * 100, 1) clamped to [0, 100], in tenths *)
HealthScore(health_raw) == Max(0, Min(Tenths(100), Percent1(health_raw)))

Grade(health_score) ==
    IF health_score >= Tenths(90) THEN "A"
    ELSE IF health_score >= Tenths(80) THEN "B"
    ELSE IF health_score >= Tenths(65) THEN "C"
    ELSE IF health_score >= Tenths(50) THEN "D"
    ELSE "F"

(* `raw` holds the locals connectivity, bottleneck_risk, silo_score and    *)
(* efficiency (fixed point); it is empty on the short-circuit path, where  *)
(* they are never computed.                                                *)
compute_health(g, comm, w) ==
    IF NumberOfNodes(g) < 2
    THEN [health_score |-> Tenths(0), grade |-> "F",
          sub_scores |-> [connectivity |-> Tenths(0), bottleneck_risk |-> Tenths(1),
                          silo_score |-> Tenths(1), efficiency |-> Tenths(0)],
          raw |-> <<>>,
          stats |-> [node_count |-> NumberOfNodes(g),
                     edge_count |-> NumberOfEdges(g)]]
    ELSE LET connectivity == Connectivity(g)
             bottleneck_risk == BottleneckRisk(g)
             silo_score == SiloScore(g, comm)
             efficiency == Efficiency(g)
             avg == AveragePath(g, LargestComponent(g))
             health_score == HealthScore(HealthRaw(w, connectivity,
                                 bottleneck_risk, silo_score, efficiency))
         IN  [health_score |-> health_score,
              grade |-> Grade(health_score),
              sub_scores |-> [connectivity |-> Percent1(connectivity),
                              bottleneck_risk |-> Percent1(bottleneck_risk),
                              silo_score |-> Percent1(silo_score),
                              efficiency |-> Percent1(efficiency)],
              raw |-> [connectivity |-> connectivity,
                       bottleneck_risk |-> bottleneck_risk,
                       silo_score |-> silo_score, efficiency |-> efficiency],
              stats |-> [node_count |-> NumberOfNodes(g),
                         edge_count |-> NumberOfEdges(g),
                         avg_path_length |-> avg,
                         clustering_coefficient |-> AverageClustering(g),
                         communities_count |-> Len(comm.communities),
                         gcc_ratio |-> GccRatio(g)]]

----------------------------------------------------------------------------
(* Numerical library calls whose result the model does not compute.  `lib` *)
(* is the outcome of this run's calls:                                     *)
(*   power     outcome of nx.eigenvector_centrality (power iteration)      *)
(*   numpy     outcome of nx.eigenvector_centrality_numpy                  *)
(*   eig       the eigenvector centrality either returns when it returns   *)

PowerOutcomes == {"ok", "PowerIterationFailedConvergence"}
NumpyOutcomes == {"ok", "ArpackNoConvergence"}
EigLevels == {NEUTRAL, SCALE}

(* Node order (insertion order of the graphs of the model). *)
AddrSeq == <<A, B, C, X>>
Index(a) == CHOOSE i \in 1..Len(AddrSeq) : AddrSeq[i] = a

(* Partitions as python-louvain numbers them: community ids in order of   *)
(* first appearance along the node order.                                  *)
Partitions(ns) ==
    {f \in [ns -> 0..(Cardinality(ns) - 1)] :
        \A v \in ns :
            f[v] <= Cardinality({f[u] : u \in {w \in ns : Index(w) < Index(v)}})}

(* The outcomes that differ in what the callers can observe; on the null   *)
(* graph neither method iterates.                                          *)
LibOutcomes(g) ==
    {l \in [power : PowerOutcomes, numpy : NumpyOutcomes,
            eig : [g.nodes -> EigLevels] \cup {<<>>}] :
        /\ (l.power = "ok" => l.numpy = "ok")
        /\ (g.nodes = {} => l.power = "ok")
        /\ (l.eig = <<>>) = (l.numpy # "ok" \/ g.nodes = {})}

NoLib == [power |-> "ok", numpy |-> "ok", eig |-> <<>>]

(* nx.eigenvector_centrality(G_undirected, max_iter=1000, weight="weight"): *)
(* NetworkXPointlessConcept for the null graph.                             *)
EigenvectorCentrality(g, lib) ==
    IF g.nodes = {} THEN [exc |-> "NetworkXPointlessConcept", value |-> <<>>]
    ELSE IF lib.power = "ok" THEN [exc |-> "none", value |-> lib.eig]
    ELSE [exc |-> lib.power, value |-> <<>>]

(* nx.eigenvector_centrality_numpy(G_undirected, weight="weight") *)
EigenvectorCentralityNumpy(g, lib) ==
    IF g.nodes = {} THEN [exc |-> "NetworkXPointlessConcept", value |-> <<>>]
    ELSE IF lib.numpy = "ok" THEN [exc |-> "none", value |-> lib.eig]
    ELSE [exc |-> lib.numpy, value |-> <<>>]

(* Variant: ascending. *)
RECURSIVE SortDesc_Ascending(_, _)
SortDesc_Ascending(S, key) ==
    IF S = {} THEN <<>>
    ELSE LET x == CHOOSE y \in S : \A z \in S : key[y] <= key[z]
         IN  <<x>> \o SortDesc_Ascending(S \ {x}, key)

(* Elements of S as a list sorted by key, descending (list.sort(key=...,   *)
(* reverse=True)); equal keys keep the order of the node iteration, which  *)
(* the graph of the model does not record.                                 *)
RECURSIVE SortDesc(_, _)
SortDesc(S, key) ==
    IF S = {} THEN <<>>
    ELSE LET x == CHOOSE y \in S : \A z \in S : key[z] <= key[y]
         IN  <<x>> \o SortDesc(S \ {x}, key)

----------------------------------------------------------------------------
(* metrics/dead_man_switch.py: compute_dead_man_switch *)

W_BETWEENNESS == 4000
W_EIGENVECTOR == 3000
W_REDUNDANCY == 3000
DefaultDmsW ==
    [betweenness |-> W_BETWEENNESS, eigenvector |-> W_EIGENVECTOR,
     redundancy |-> W_REDUNDANCY]

(* The try/except chain around the eigenvector computation. *)
DmsEigenvector(g, lib) ==
    LET first == EigenvectorCentrality(g, lib)
        second == EigenvectorCentralityNumpy(g, lib)
    IN  IF first.exc = "none" THEN first
        ELSE IF first.exc \in {"PowerIterationFailedConvergence", "NetworkXError"}
        THEN IF second.exc = "none" THEN second
             ELSE [exc |-> "none", value |-> [n \in g.nodes |-> 0]]
        ELSE first

(* Variant: nothing is lost when the last node goes. *)
ReachablePct_AllReachable(g, v) == SCALE

(* Fraction of the other nodes that stay in the largest weakly connected   *)
(* component when node is removed from a copy.                             *)
ReachablePct(g, v) ==
    LET removed == RemoveNode(g, v)
    IN  IF NumberOfNodes(removed) > 0
        THEN (SCALE * Cardinality(LargestComponent(removed)))
                \div (NumberOfNodes(g) - 1)
        ELSE 0

(* Lines 47-48 and 61-78: the record of one node, given the redundancy     *)
(* measured on the graph without it.                                       *)
DmsRecordWith(nodes, w, betweenness, eigenvector, v, redundancy) ==
    LET max_betw == SetMax({betweenness[u] : u \in nodes})
        max_eigen == SetMax({eigenvector[u] : u \in nodes})
        norm_betw == IF max_betw > 0 THEN (SCALE * betweenness[v]) \div max_betw
                     ELSE 0
        norm_eigen == IF max_eigen > 0 THEN (SCALE * eigenvector[v]) \div max_eigen
                      ELSE 0
    IN  [id |-> v,
         dms_score |-> RoundDiv(w.betweenness * norm_betw
                                  + w.eigenvector * norm_eigen
                                  - w.redundancy * redundancy, SCALE),
         betweenness |-> betweenness[v],
         eigenvector |-> eigenvector[v],
         redundancy |-> redundancy,
         impact_pct |-> Percent1(SCALE - redundancy)]

DmsRecord(g, w, betweenness, eigenvector, v) ==
    DmsRecordWith(g.nodes, w, betweenness, eigenvector, v, ReachablePct(g, v))

compute_dead_man_switch(g, w, lib) ==
    IF NumberOfNodes(g) = 0 THEN [exc |-> "none", result |-> <<>>]
    ELSE LET betweenness == BetweennessCentrality(g)
             eigen == DmsEigenvector(g, lib)
             recs == [v \in g.nodes |->
                        DmsRecord(g, w, betweenness, eigen.value, v)]
             order == SortDesc(g.nodes, [v \in g.nodes |-> recs[v].dms_score])
         IN  IF eigen.exc # "none" THEN [exc |-> eigen.exc, result |-> <<>>]
             ELSE [exc |-> "none",
                   result |-> [i \in 1..Len(order) |-> recs[order[i]]]]

----------------------------------------------------------------------------
(* metrics/centrality.py: compute_centrality *)

(* G[u][v].get("weight", 1) *)
EdgeWeight(g, p) == IF "weight" \in g.e[p].has THEN g.e[p].weight ELSE SCALE

RECURSIVE PathCost(_, _)
PathCost(g, path) ==
    IF Len(path) < 2 THEN 0
    ELSE EdgeWeight(g, <<path[1], path[2]>>) + PathCost(g, Tail(path))

(* Shortest paths with the edge attribute `weight` as the distance. *)
WeightedShortestPaths(g, s, t) ==
    LET ps == PathsFrom(g, <<s>>, t)
    IN  {q \in ps : \A r \in ps : PathCost(g, q) <= PathCost(g, r)}

(* nx.betweenness_centrality(G, weight="weight", normalized=True) *)
WeightedBetweenness(g, v) ==
    LET n == NumberOfNodes(g)
        pairs == {p \in g.nodes \X g.nodes :
                    p[1] # p[2] /\ p[1] # v /\ p[2] # v
                    /\ WeightedShortestPaths(g, p[1], p[2]) # {}}
        frac == [p \in pairs |->
                   LET sp == WeightedShortestPaths(g, p[1], p[2])
                   IN  (SCALE * Cardinality({q \in sp : Through(q, v)}))
                          \div Cardinality(sp)]
    IN  IF n > 2 THEN SumOver(pairs, frac) \div ((n - 1) * (n - 2))
        ELSE SumOver(pairs, frac)

(* nx.in_degree_centrality / nx.out_degree_centrality *)
InDegreeCentrality(g, v) ==
    IF NumberOfNodes(g) <= 1 THEN SCALE
    ELSE (SCALE * Cardinality(Predecessors(g, v))) \div (NumberOfNodes(g) - 1)

OutDegreeCentrality(g, v) ==
    IF NumberOfNodes(g) <= 1 THEN SCALE
    ELSE (SCALE * Cardinality(Successors(g, v))) \div (NumberOfNodes(g) - 1)

(* The try/except around the eigenvector computation. *)
CentralityEigenvector(g, lib) ==
    LET first == EigenvectorCentrality(g, lib)
    IN  IF first.exc = "none" THEN first
        ELSE IF first.exc = "PowerIterationFailedConvergence"
        THEN EigenvectorCentralityNumpy(g, lib)
        ELSE first

DegreeCentrality_Difference(g, v) ==
    InDegreeCentrality(g, v) - OutDegreeCentrality(g, v)

(* results[node]["degree_centrality"] = in_deg.get(node, 0) + out_deg.get(node, 0) *)
DegreeCentrality(g, v) == InDegreeCentrality(g, v) + OutDegreeCentrality(g, v)

CentralityKeys ==
    {"in_degree_centrality", "out_degree_centrality", "degree_centrality",
     "betweenness_centrality", "eigenvector_centrality", "pagerank"}

(* The value of pagerank is not computed by the model; its key is. *)
compute_centrality(g, lib) ==
    LET eigen == CentralityEigenvector(g, lib)
    IN  IF eigen.exc # "none" THEN [exc |-> eigen.exc, result |-> <<>>]
        ELSE [exc |-> "none",
              result |-> [v \in g.nodes |->
                 [keys |-> CentralityKeys,
                  in_degree_centrality |-> InDegreeCentrality(g, v),
                  out_degree_centrality |-> OutDegreeCentrality(g, v),
                  degree_centrality |-> DegreeCentrality(g, v),
                  betweenness_centrality |-> WeightedBetweenness(g, v),
                  eigenvector_centrality |-> eigen.value[v]]]]

----------------------------------------------------------------------------
(* metrics/community.py: detect_communities, label_communities *)

(* community_louvain.best_partition(G_undirected): without edges every     *)
(* node is its own community, numbered in node order; otherwise `louvain`  *)
(* is the partition the randomised heuristic returns.                      *)
BestPartition(g, louvain) ==
    IF NumberOfEdges(g) = 0
    THEN [v \in g.nodes |-> Cardinality({u \in g.nodes : Index(u) < Index(v)})]
    ELSE louvain

(* community_louvain.modularity raises ValueError for a graph without     *)
(* links; its value is not computed by the model.                          *)
ModularityRaises(g) == NumberOfEdges(g) = 0

CommunityIds(partition) == {partition[v] : v \in DOMAIN partition}

(* Internal density of one community, rounded to four digits. *)
CommunityDensity(g, members) ==
    LET n == Cardinality(members)
        internal == Cardinality({e \in UndirectedEdges(g) : e \subseteq members})
    IN  IF n > 1 THEN RoundDiv(SCALE * 2 * internal, n * (n - 1))
        ELSE SCALE * internal

(* Variant: every node is appended to every community. *)
MemberList_Everyone(partition, comm_id) ==
    SelectSeq(AddrSeq, LAMBDA v : v \in DOMAIN partition)

(* Lines 34-36: community_members[comm_id], filled by one pass over        *)
(* partition.items(), which lists the nodes in the order of the graph.     *)
MemberList(partition, comm_id) ==
    SelectSeq(AddrSeq, LAMBDA v : v \in DOMAIN partition /\ partition[v] = comm_id)

CommunityRecord(g, partition, comm_id) ==
    LET members == MemberList(partition, comm_id)
    IN  [id |-> comm_id,
         members |-> members,
         size |-> Len(members),
         density |-> CommunityDensity(g, Range(members))]

(* sorted(betweenness.values())[len(betweenness) // 2] *)
MedianBetweenness(g, betweenness) ==
    IF g.nodes = {} THEN 0
    ELSE SortedValues(g.nodes, betweenness)[NumberOfNodes(g) \div 2 + 1]

(* Variant: only the successors are looked at. *)
NeighborCommunities_SuccessorsOnly(g, partition, v) ==
    {partition[u] : u \in Successors(g, v) \cap DOMAIN partition}

(* Lines 62-65: the communities of the predecessors and successors. *)
NeighborCommunities(g, partition, node) ==
    {partition[v] : v \in (Predecessors(g, node) \cup Successors(g, node))
                             \cap DOMAIN partition}

BridgeNodes(g, partition) ==
    LET betweenness == BetweennessCentrality(g)
    IN  {v \in g.nodes :
           /\ betweenness[v] >= MedianBetweenness(g, betweenness)
           /\ Cardinality(NeighborCommunities(g, partition, v)) > 1}

(* label_communities: the per-community statistics. *)
IsBridgeMember(g, partition, comm_id, m) ==
    \E v \in (Predecessors(g, m) \cup Successors(g, m)) \cap DOMAIN partition :
        partition[v] # comm_id

CommunityStats(g, partition, betweenness, comm) ==
    LET members == Range(comm.members) \cap g.nodes
        bridge_count ==
            Cardinality({m \in members : IsBridgeMember(g, partition, comm.id, m)})
    IN  [id |-> comm.id,
         size |-> comm.size,
         density |-> comm.density,
         avg_betweenness |->
             IF comm.size > 0
             THEN SumOver(Range(comm.members), [m \in Range(comm.members) |->
                      IF m \in DOMAIN betweenness THEN betweenness[m] ELSE 0])
                     \div comm.size
             ELSE 0,
         avg_degree |->
             IF comm.size > 0
             THEN (SCALE * SumOver(members, [m \in members |->
                      Cardinality({p \in g.edges : p[1] = m})
                        + Cardinality({p \in g.edges : p[2] = m})]))
                     \div comm.size
             ELSE 0,
         bridge_ratio |->
             IF comm.size > 0 THEN (SCALE * bridge_count) \div comm.size ELSE 0,
         inter_edges |-> bridge_count]

OpsLetters == <<"A", "B", "C", "D", "E", "F", "G", "H">>

(* Variant: the density rule is tried before the bridge rule. *)
LabelRule_UnitFirst(rank, s, ops) ==
    IF s.size < 5
    THEN (IF s.size >= 3 THEN [name |-> "Small Team", letter |-> ""]
          ELSE [name |-> "Working Pair", letter |-> ""])
    ELSE IF s.density > 1500 /\ s.size < 100
         THEN [name |-> "Specialized Unit", letter |-> ""]
    ELSE IF rank = 0 /\ s.bridge_ratio > 3000
         THEN [name |-> "Executive & Strategy", letter |-> ""]
    ELSE IF s.size > 500 /\ s.density < 200
         THEN [name |-> "Extended Network", letter |-> ""]
    ELSE IF s.avg_degree > 15 * SCALE /\ s.inter_edges > 50
         THEN [name |-> "Trading & Communications", letter |-> ""]
    ELSE IF s.density > 500 /\ 20 < s.size /\ s.size < 500
         THEN [name |-> "Core Operations", letter |-> ""]
    ELSE [name |-> "Operations Group", letter |-> OpsLetters[ops]]

(* The if/elif chain of label_communities; ops is the value of ops_counter *)
(* after this community.                                                   *)
LabelRule(rank, s, ops) ==
    IF s.size < 5
    THEN (IF s.size >= 3 THEN [name |-> "Small Team", letter |-> ""]
          ELSE [name |-> "Working Pair", letter |-> ""])
    ELSE IF rank = 0 /\ s.bridge_ratio > 3000
         THEN [name |-> "Executive & Strategy", letter |-> ""]
    ELSE IF s.density > 1500 /\ s.size < 100
         THEN [name |-> "Specialized Unit", letter |-> ""]
    ELSE IF s.size > 500 /\ s.density < 200
         THEN [name |-> "Extended Network", letter |-> ""]
    ELSE IF s.avg_degree > 15 * SCALE /\ s.inter_edges > 50
         THEN [name |-> "Trading & Communications", letter |-> ""]
    ELSE IF s.density > 500 /\ 20 < s.size /\ s.size < 500
         THEN [name |-> "Core Operations", letter |-> ""]
    ELSE [name |-> "Operations Group", letter |-> OpsLetters[ops]]

FallsThrough(rank, s) == LabelRule(rank, s, 1).name = "Operations Group"

(* sorted(stats, key=avg_betweenness, reverse=True): a stable sort, equal *)
(* keys stay in the order of the community ids.                            *)
RECURSIVE RankStats(_)
RankStats(S) ==
    IF S = {} THEN <<>>
    ELSE LET x == CHOOSE y \in S : \A z \in S :
                     \/ z.avg_betweenness < y.avg_betweenness
                     \/ (z.avg_betweenness = y.avg_betweenness /\ y.id <= z.id)
         IN  <<x>> \o RankStats(S \ {x})

RECURSIVE AssignLabels(_, _, _)
AssignLabels(ranked, rank, ops_counter) ==
    IF rank >= Len(ranked) THEN <<>>
    ELSE LET s == ranked[rank + 1]
             ops == IF FallsThrough(rank, s) THEN ops_counter + 1 ELSE ops_counter
         IN  <<[id |-> s.id, label |-> LabelRule(rank, s, ops)]>>
                \o AssignLabels(ranked, rank + 1, ops)

(* Lines 128-152: rank the statistics, label in rank order. *)
LabelsFromStats(stats) ==
    LET labelled == AssignLabels(RankStats(stats), 0, 0)
    IN  [cid \in {t.id : t \in stats} |->
           labelled[CHOOSE i \in 1..Len(labelled) : labelled[i].id = cid].label]

label_communities(comms, g, partition, betweenness) ==
    LabelsFromStats({CommunityStats(g, partition, betweenness, c) : c \in comms})

detect_communities(g, louvain) ==
    LET partition == BestPartition(g, louvain)
        comms == {CommunityRecord(g, partition, c) : c \in CommunityIds(partition)}
    IN  IF ModularityRaises(g)
        THEN [exc |-> "ValueError", result |-> NoCommunities]
        ELSE [exc |-> "none",
              result |->
                [partition |-> partition,
                 communities |-> SortDesc(comms, [c \in comms |-> 0 - c.id]),
                 bridge_nodes |-> BridgeNodes(g, partition),
                 labels |-> label_communities(comms, g, partition,
                                              BetweennessCentrality(g))]]

----------------------------------------------------------------------------
(* metrics/waste.py: compute_waste *)

BROADCAST_THRESHOLD == 5

(* email.subject.lower().startswith("re:") over the subjects of the model *)
ReplySubjects == {"Re: Hello", "RE: Hello"}
IsReply(subject) == subject \in ReplySubjects

(* sender_stats[sender] of the message loop *)
RECURSIVE SenderStats(_, _, _)
SenderStats(es, sender, threshold) ==
    IF es = <<>>
    THEN [total_sent |-> 0, total_cc_bcc |-> 0, broadcast_count |-> 0,
          reply_all_count |-> 0]
    ELSE LET rest == SenderStats(Tail(es), sender, threshold)
             m == Head(es)
             n_recipients == Len(AllRecipients(m))
         IN  IF m.sender # sender THEN rest
             ELSE [total_sent |-> rest.total_sent + 1,
                   total_cc_bcc |-> rest.total_cc_bcc + Len(m.recipients_cc)
                                       + Len(m.recipients_bcc),
                   broadcast_count |-> rest.broadcast_count
                       + (IF n_recipients > threshold THEN 1 ELSE 0),
                   reply_all_count |-> rest.reply_all_count
                       + (IF IsReply(m.subject) /\ n_recipients > 3 THEN 1 ELSE 0)]

(* Variant: the neighbours that did answer are counted. *)
OrphanRatio_Answered(g, v) ==
    LET out_neighbors == Successors(g, v)
        answered == Cardinality({n \in out_neighbors : HasEdge(g, n, v)})
    IN  IF out_neighbors # {}
        THEN (SCALE * answered) \div Cardinality(out_neighbors) ELSE 0

(* Lines 87-89 *)
OrphanRatio(g, node) ==
    LET out_neighbors == Successors(g, node)
        orphan_count == Cardinality({n \in out_neighbors : ~HasEdge(g, n, node)})
    IN  IF out_neighbors # {}
        THEN (SCALE * orphan_count) \div Cardinality(out_neighbors) ELSE 0

(* Variant: no cap. *)
NormOverproduction_NoCap(overproduction) == overproduction \div 10

(* Line 92: min(overproduction / 10, 1.0) *)
NormOverproduction(overproduction) == Min(overproduction \div 10, SCALE)

WasteRecord(g, es, threshold, node) ==
    LET stats == SenderStats(es, node, threshold)
        total_sent == stats.total_sent
        overproduction == (SCALE * stats.total_cc_bcc) \div total_sent
        broadcast_ratio == (SCALE * stats.broadcast_count) \div total_sent
        reply_all_ratio == (SCALE * stats.reply_all_count) \div total_sent
        orphan_ratio == OrphanRatio(g, node)
        norm_overproduction == NormOverproduction(overproduction)
        waste_score == (3000 * norm_overproduction + 3000 * broadcast_ratio
                          + 2000 * reply_all_ratio + 2000 * orphan_ratio) \div SCALE
    IN  IF total_sent = 0
        THEN [id |-> node, waste_score |-> 0, overproduction |-> 0,
              broadcast_ratio |-> 0, reply_all_ratio |-> 0, orphan_ratio |-> 0]
        ELSE [id |-> node, waste_score |-> Percent1(waste_score),
              overproduction |-> overproduction,
              broadcast_ratio |-> broadcast_ratio,
              reply_all_ratio |-> reply_all_ratio,
              orphan_ratio |-> orphan_ratio]

compute_waste(g, es, threshold) ==
    LET recs == [v \in g.nodes |-> WasteRecord(g, es, threshold, v)]
        order == SortDesc(g.nodes, [v \in g.nodes |-> recs[v].waste_score])
    IN  [i \in 1..Len(order) |-> recs[order[i]]]

----------------------------------------------------------------------------
(* State machines.  The callers that drive the code:                        *)
(*   SpecBuild    a caller of build_graph with a list of its own            *)
(*   SpecWaste    a caller of build_graph and compute_waste on one list     *)
(*   SpecCaller   a caller of build_graph and then compute_weights or       *)
(*                enrich_graph_with_sentiment                               *)
(*   SpecMetrics  a caller of the weighting and metric functions on a       *)
(*                graph of its own                                          *)
(*   SpecRemoval  compute_dead_man_switch, statement by statement           *)
(*   SpecLabels   a caller of label_communities                             *)
(*   SpecWeights  run_pipeline up to the second weight pass                 *)
(*   Spec         run_pipeline up to compute_health                         *)

NoResult == <<>>

build_locals == <<edge_data, node_sent, node_received>>
build_params == <<min_emails, enron_only>>
results == <<communities, centrality, dms, waste, health>>
dms_locals == <<dms_node, G_removed>>

InitState(start) ==
    /\ pc = start
    /\ emails = <<>>
    /\ min_emails = 1
    /\ enron_only = TRUE
    /\ edge_data = EmptyAcc.edge_data
    /\ node_sent = EmptyAcc.node_sent
    /\ node_received = EmptyAcc.node_received
    /\ G = EmptyGraph
    /\ coef = DefaultCoef
    /\ libs = NoLib
    /\ communities = NoResult
    /\ centrality = NoResult
    /\ dms = NoResult
    /\ waste = NoResult
    /\ health = NoResult
    /\ err = "none"
    /\ trace = <<>>
    /\ dms_node = <<>>
    /\ G_removed = GraphCopy(EmptyGraph)

(* Days on which the messages of the model are sent. *)
Dates == {1, 541}
FirstDay == CHOOSE d \in Dates : \A e \in Dates : d <= e
Polarities == {0 - SCALE, SCALE}

(* Messages of a caller of build_graph: a plain message between every      *)
(* ordered pair of {A, B, X} (self-addressed and external included), and    *)
(* variations of the message A -> B in one field at a time (recipients in   *)
(* cc or bcc, date, subject).                                               *)
BuildMessages ==
    {Email(s, <<r>>, <<>>, <<>>, "Hello", FirstDay, 0) : s \in {A, B, X}, r \in {A, B, X}}
    \cup {Email(A, <<B>>, cc, <<>>, "Hello", FirstDay, 0) : cc \in {<<B>>, <<X>>, <<A>>}}
    \cup {Email(A, <<B>>, <<>>, <<B>>, "Hello", FirstDay, 0)}
    \cup {Email(A, <<B>>, <<>>, <<>>, "", d, 0) : d \in (Dates \cup {NoDate}) \ {FirstDay}}
    \cup {Email(A, <<B>>, <<>>, <<>>, "Re: Hello", FirstDay, 0)}

(* The caller extends the list it is going to pass. *)
DrawEmail ==
    /\ pc = "draw"
    /\ Len(emails) < MaxEmails
    /\ \E m \in BuildMessages : emails' = Append(emails, m)
    /\ UNCHANGED <<build_params, pc, build_locals, G, coef, libs, results, err, trace, dms_locals>>

(* build_graph(emails, min_emails=threshold, enron_only=eo) *)
CallBuildGraph ==
    /\ pc = "draw"
    /\ \E threshold \in 1..MaxThreshold, eo \in BOOLEAN :
         LET acc == ProcessEmails(EmptyAcc, emails, eo)
         IN  /\ min_emails' = threshold
             /\ enron_only' = eo
             /\ edge_data' = acc.edge_data
             /\ node_sent' = acc.node_sent
             /\ node_received' = acc.node_received
             /\ G' = Materialize(acc, threshold)
    /\ pc' = "built"
    /\ trace' = Append(trace, "build_graph")
    /\ UNCHANGED <<emails, coef, libs, results, err, dms_locals>>

InitBuild == InitState("draw")
NextBuild == DrawEmail \/ CallBuildGraph
SpecBuild == InitBuild /\ [][NextBuild]_vars

----------------------------------------------------------------------------
(* Properties of build_graph *)

(* Occurrences of recipient r in the recipient lists of the messages from s *)
(* that pass the domain filter, counted from the message list itself.       *)
RECURSIVE QualifyingOccurrences(_, _, _, _)
QualifyingOccurrences(es, s, r, eo) ==
    IF es = <<>> THEN 0
    ELSE LET m == Head(es)
             here == IF m.sender = s /\ s # r
                        /\ (eo => EndsWithEnron(s) /\ EndsWithEnron(r))
                     THEN Cardinality({i \in DOMAIN AllRecipients(m) :
                                          AllRecipients(m)[i] = r})
                     ELSE 0
         IN  here + QualifyingOccurrences(Tail(es), s, r, eo)

(* C1: after build_graph, a directed edge s -> r exists if and only if the  *)
(* number of qualifying s -> r occurrences in the message list is at least  *)
(* the threshold.                                                           *)
C1_ThresholdIff ==
    pc = "built" =>
        \A p \in Pairs :
            LET count == QualifyingOccurrences(emails, p[1], p[2], enron_only)
            IN  /\ (p \in G.edges) <=> (count >= min_emails)
                /\ (p \in G.edges) => (G.e[p].email_count = count)

(* A pair exactly at the threshold is an edge while another pair stays      *)
(* below it.                                                                *)
C1_Witness ==
    /\ pc = "built"
    /\ min_emails > 1
    /\ \E p \in G.edges : QualifyingOccurrences(emails, p[1], p[2], enron_only) = min_emails
    /\ \E p \in Pairs : /\ QualifyingOccurrences(emails, p[1], p[2], enron_only) > 0
                        /\ p \notin G.edges

IsEndpoint(g, a) == \E p \in g.edges : a = p[1] \/ a = p[2]

(* C9: an address is a node of the built graph if and only if it is an      *)
(* endpoint of at least one materialised edge.                              *)
C9_NodeIffEndpoint ==
    pc = "built" => \A a \in Addrs : (a \in G.nodes) <=> IsEndpoint(G, a)

(* An address took part in a below-threshold pair only and is no node,      *)
(* while the graph has nodes.                                               *)
C9_Witness ==
    /\ pc = "built"
    /\ G.nodes # {}
    /\ \E a \in Addrs \ G.nodes : node_sent[a] + node_received[a] > 0

IsSelfOnly(m) ==
    /\ AllRecipients(m) # <<>>
    /\ \A i \in DOMAIN AllRecipients(m) : AllRecipients(m)[i] = m.sender

WithoutSelfOnly(es) == SelectSeq(es, LAMBDA m : ~IsSelfOnly(m))

(* C10: the built graph has no self-loop, and the messages whose only       *)
(* recipient is their own sender change no edge count and no node total:    *)
(* the aggregates equal those of the list without these messages, and no    *)
(* aggregate of a pair (a, a) is ever touched.                              *)
C10_NoSelfLoops ==
    pc = "built" =>
        /\ \A a \in Addrs : <<a, a>> \notin G.edges /\ edge_data[<<a, a>>].email_count = 0
        /\ LET acc == ProcessEmails(EmptyAcc, WithoutSelfOnly(emails), enron_only)
           IN  /\ edge_data = acc.edge_data
               /\ node_sent = acc.node_sent
               /\ node_received = acc.node_received
        /\ \A a \in Addrs :
              /\ node_sent[a] = SumOver(Addrs \ {a}, [r \in Addrs |-> edge_data[<<a, r>>].email_count])
              /\ node_received[a] = SumOver(Addrs \ {a}, [r \in Addrs |-> edge_data[<<r, a>>].email_count])

(* A list with a self-only message from an enron address, built into a      *)
(* graph with an edge, threshold as low as it goes.                         *)
C10_Witness ==
    /\ pc = "built"
    /\ min_emails = 1
    /\ \E i \in DOMAIN emails : IsSelfOnly(emails[i]) /\ EndsWithEnron(emails[i].sender)
    /\ G.edges # {}

(* The message list in another order. *)
Reorderings(es) ==
    {[i \in DOMAIN es |-> es[f[i]]] :
        f \in {g \in [DOMAIN es -> DOMAIN es] :
                  \A i, j \in DOMAIN es : i # j => g[i] # g[j]}}

(* C18: build_graph returns the same graph (nodes, edges, node and edge     *)
(* attributes, subjects included) for the message list in any order.        *)
C18_OrderIndependent ==
    pc = "built" =>
        \A es \in Reorderings(emails) : build_graph(es, min_emails, enron_only) = G

InOrganization(a) == a.domain = "enron.com"

(* Deliveries from s to r in the message list, whatever the domains. *)
Deliveries(es, s, r) == QualifyingOccurrences(es, s, r, FALSE)

(* C17: with enron_only set, every node and every edge endpoint of the      *)
(* built graph is an address of the organization's domain, the email_count  *)
(* of an edge counts deliveries between its two in-domain endpoints, and    *)
(* total_sent / total_received of a node count its deliveries to / from     *)
(* in-domain addresses only.                                                *)
C17_DomainFilter ==
    (pc = "built" /\ enron_only) =>
        /\ \A a \in G.nodes : InOrganization(a)
        /\ \A p \in G.edges :
              /\ InOrganization(p[1]) /\ InOrganization(p[2])
              /\ G.e[p].email_count = Deliveries(emails, p[1], p[2])
        /\ \A a \in G.nodes :
              LET inside == {r \in Addrs \ {a} : InOrganization(r)}
              IN  /\ G.n[a].total_sent =
                        SumOver(inside, [r \in inside |-> Deliveries(emails, a, r)])
                  /\ G.n[a].total_received =
                        SumOver(inside, [r \in inside |-> Deliveries(emails, r, a)])

(* A node of the filtered graph has sent to and received from an outside    *)
(* address.                                                                 *)
C17_Witness ==
    /\ pc = "built"
    /\ enron_only
    /\ \E a \in G.nodes : \E x \in Addrs :
          /\ ~InOrganization(x)
          /\ Deliveries(emails, a, x) > 0
          /\ Deliveries(emails, x, a) > 0

(* Messages of es sent by s that pass the domain filter and have r, an      *)
(* address other than s, in at least one of their recipient lists.          *)
RECURSIVE MessagesTo(_, _, _, _)
MessagesTo(es, s, r, eo) ==
    IF es = <<>> THEN 0
    ELSE LET m == Head(es)
             here == IF m.sender = s /\ s # r
                        /\ (eo => EndsWithEnron(s) /\ EndsWithEnron(r))
                        /\ r \in Range(AllRecipients(m))
                     THEN 1 ELSE 0
         IN  here + MessagesTo(Tail(es), s, r, eo)

(* C22: the email_count of every edge s -> r is the number of messages sent *)
(* by s that have r as a recipient in any class, a message counting at most *)
(* once for the pair.                                                       *)
C22_OncePerMessage ==
    pc = "built" =>
        \A p \in G.edges :
            G.e[p].email_count = MessagesTo(emails, p[1], p[2], enron_only)

(* Filtered deliveries sent by and received by an address, counted from the *)
(* message list.                                                            *)
DeliveriesFrom(es, a, eo) ==
    SumOver(Addrs, [r \in Addrs |-> QualifyingOccurrences(es, a, r, eo)])

DeliveriesTo(es, a, eo) ==
    SumOver(Addrs, [s \in Addrs |-> QualifyingOccurrences(es, s, a, eo)])

OutCount(g, a) ==
    SumOver({p \in g.edges : p[1] = a}, [p \in Pairs |-> g.e[p].email_count])

InCount(g, a) ==
    SumOver({p \in g.edges : p[2] = a}, [p \in Pairs |-> g.e[p].email_count])

(* C23: total_sent and total_received of every node count every filtered    *)
(* delivery of the address, pairs below the threshold included; so they are *)
(* at least the sums of email_count over the node's outgoing and incoming   *)
(* edges, and equal to them when the threshold is 1.                        *)
C23_TotalsIgnoreThreshold ==
    pc = "built" =>
        \A a \in G.nodes :
            /\ G.n[a].total_sent = DeliveriesFrom(emails, a, enron_only)
            /\ G.n[a].total_received = DeliveriesTo(emails, a, enron_only)
            /\ G.n[a].total_sent >= OutCount(G, a)
            /\ G.n[a].total_received >= InCount(G, a)
            /\ min_emails = 1 =>
                  /\ G.n[a].total_sent = OutCount(G, a)
                  /\ G.n[a].total_received = InCount(G, a)

(* A node whose total_sent exceeds the count on its edges: one of its       *)
(* pairs stayed below the threshold.                                        *)
C23_Witness ==
    /\ pc = "built"
    /\ min_emails = 2
    /\ \E a \in G.nodes :
          /\ OutCount(G, a) = 2
          /\ G.n[a].total_sent = 3
          /\ \E r \in Addrs \ G.nodes : edge_data[<<a, r>>].email_count = 1

----------------------------------------------------------------------------
(* A caller of the weighting and metric functions: it makes a graph of its  *)
(* own (nodes in the order of AddrSeq, edges with the attributes the        *)
(* functions default), then calls one function on it.                       *)

MaxNodes == 3

LastDay == SetMax(Dates)

AddNode ==
    /\ pc = "graph"
    /\ NumberOfNodes(G) < Min(MaxNodes, Len(AddrSeq))
    /\ G' = [G EXCEPT !.nodes = @ \cup {AddrSeq[NumberOfNodes(G) + 1]}]
    /\ UNCHANGED <<emails, build_params, pc, build_locals, coef, libs, results, err, trace, dms_locals>>

AddGraphEdge ==
    /\ pc = "graph"
    /\ \E u \in G.nodes, v \in G.nodes :
         /\ u # v
         /\ ~HasEdge(G, u, v)
         /\ G' = AddEdge(G, u, v, [EdgeDefault EXCEPT !.email_count = 1])
    /\ UNCHANGED <<emails, build_params, pc, build_locals, coef, libs, results, err, trace, dms_locals>>

(* A star: an edge in both directions between the center and every leaf. *)
StarGraph(center, leaves) ==
    LET spokes == {<<center, l>> : l \in leaves} \cup {<<l, center>> : l \in leaves}
    IN  [EmptyGraph EXCEPT
           !.nodes = {center} \cup leaves,
           !.edges = spokes,
           !.e = [p \in Pairs |->
                    IF p \in spokes THEN [EdgeDefault EXCEPT !.email_count = 1]
                    ELSE EdgeDefault]]

(* The caller makes a star graph instead (build_star_graph of the tests). *)
MakeStar ==
    /\ pc = "graph"
    /\ G = EmptyGraph
    /\ \E center \in Addrs :
         \E leaves \in (SUBSET (Addrs \ {center})) \ {{}} :
             G' = StarGraph(center, leaves)
    /\ pc' = "star"
    /\ UNCHANGED <<emails, build_params, build_locals, coef, libs, results, err, trace, dms_locals>>

(* Two fully connected clusters joined by one edge pair between a and b. *)
TwoClusters(first, second, a, b) ==
    LET links == {p \in (first \X first) \cup (second \X second) : p[1] # p[2]}
                    \cup {<<a, b>>, <<b, a>>}
    IN  [EmptyGraph EXCEPT
           !.nodes = first \cup second,
           !.edges = links,
           !.e = [p \in Pairs |->
                    IF p \in links THEN [EdgeDefault EXCEPT !.email_count = 1]
                    ELSE EdgeDefault]]

(* The caller makes two clusters and a bridge (build_two_clusters of the    *)
(* tests), of three nodes or more in all.                                   *)
MakeTwoClusters ==
    /\ pc = "graph"
    /\ G = EmptyGraph
    /\ \E first \in (SUBSET Addrs) \ {{}} :
         \E second \in (SUBSET (Addrs \ first)) \ {{}} :
             /\ Cardinality(first \cup second) >= 3
             /\ \E a \in first, b \in second : G' = TwoClusters(first, second, a, b)
    /\ pc' = "clusters"
    /\ UNCHANGED <<emails, build_params, build_locals, coef, libs, results, err, trace, dms_locals>>

(* Coefficients a caller passes: the defaults, one negative, one far too    *)
(* large.                                                                   *)
CoefVariants(default, key) ==
    {default, [default EXCEPT ![key] = 0 - SCALE], [default EXCEPT ![key] = 2 * SCALE]}

Returned(name) ==
    /\ pc' = "returned"
    /\ trace' = Append(trace, name)

(* compute_weights(G, alpha=.., beta=.., gamma=.., delta=..) *)
CallComputeWeights ==
    /\ pc \in {"graph", "built"}
    /\ \E c \in CoefVariants(DefaultCoef, "alpha") :
         /\ G' = compute_weights(G, c, NoDate, DECAY_DAYS, LastDay)
         /\ coef' = c
    /\ err' = "none"
    /\ Returned("compute_weights")
    /\ UNCHANGED <<emails, build_params, build_locals, libs, results, dms_locals>>

(* enrich_graph_with_sentiment(G, emails) *)
CallEnrich ==
    /\ pc \in {"graph", "built"}
    /\ G' = enrich_graph_with_sentiment(G, emails)
    /\ err' = "none"
    /\ Returned("enrich_graph_with_sentiment")
    /\ UNCHANGED <<emails, build_params, build_locals, coef, libs, results, dms_locals>>

(* compute_centrality(G) *)
CallComputeCentrality ==
    /\ pc \in {"graph", "star"}
    /\ \E lib \in LibOutcomes(G) :
         LET r == compute_centrality(G, lib)
         IN  /\ libs' = lib
             /\ centrality' = r.result
             /\ err' = r.exc
    /\ Returned("compute_centrality")
    /\ UNCHANGED <<emails, build_params, build_locals, G, coef, communities, dms, waste, health, dms_locals>>

(* detect_communities(G) *)
CallDetectCommunities ==
    /\ pc \in {"graph", "clusters"}
    /\ \E louvain \in Partitions(G.nodes) :
         LET r == detect_communities(G, louvain)
         IN  /\ communities' = r.result
             /\ err' = r.exc
    /\ Returned("detect_communities")
    /\ UNCHANGED <<emails, build_params, build_locals, G, coef, libs, centrality, dms, waste, health, dms_locals>>

(* compute_dead_man_switch(G, w_betweenness=.., w_eigenvector=.., w_redundancy=..) *)
CallDeadManSwitch ==
    /\ pc \in {"graph", "star"}
    /\ \E w \in CoefVariants(DefaultDmsW, "betweenness"), lib \in LibOutcomes(G) :
         LET r == compute_dead_man_switch(G, w, lib)
         IN  /\ coef' = w
             /\ libs' = lib
             /\ dms' = r.result
             /\ err' = r.exc
    /\ Returned("compute_dead_man_switch")
    /\ UNCHANGED <<emails, build_params, build_locals, G, communities, centrality, waste, health, dms_locals>>

(* Thresholds a caller passes: every message is a broadcast, the default,  *)
(* one in between.                                                         *)
BroadcastThresholds == {0, 3, BROADCAST_THRESHOLD}

(* compute_waste(G, emails, broadcast_threshold=..), on a graph of the     *)
(* caller's own or on the one build_graph returned for the list.           *)
CallComputeWaste ==
    /\ pc \in {"graph", "built"}
    /\ \E threshold \in BroadcastThresholds :
         waste' = compute_waste(G, emails, threshold)
    /\ err' = "none"
    /\ Returned("compute_waste")
    /\ UNCHANGED <<emails, build_params, build_locals, G, coef, libs, communities, centrality, dms, health, dms_locals>>

(* The bundles detect_communities can have returned for g, and the empty    *)
(* bundle.                                                                   *)
CommunityBundles(g) ==
    {detect_communities(g, louvain).result : louvain \in Partitions(g.nodes)}
        \cup {NoCommunities}

(* compute_health(G, communities, w_connectivity=.., ...) *)
CallComputeHealth ==
    /\ pc = "graph"
    /\ \E comm \in CommunityBundles(G), w \in CoefVariants(DefaultHealthW, "connectivity") :
         /\ health' = compute_health(G, comm, w)
         /\ communities' = comm
         /\ coef' = w
    /\ err' = "none"
    /\ Returned("compute_health")
    /\ UNCHANGED <<emails, build_params, build_locals, G, libs, centrality, dms, waste, dms_locals>>

InitMetrics == InitState("graph")
NextMetrics ==
    \/ AddNode
    \/ AddGraphEdge
    \/ MakeStar
    \/ MakeTwoClusters
    \/ CallComputeWeights
    \/ CallEnrich
    \/ CallComputeCentrality
    \/ CallDetectCommunities
    \/ CallDeadManSwitch
    \/ CallComputeWaste
    \/ CallComputeHealth
SpecMetrics == InitMetrics /\ [][NextMetrics]_vars

----------------------------------------------------------------------------
(* Properties of the metric functions *)

ReturnedFrom(name) == pc = "returned" /\ trace = <<name>>

InUnit(x) == 0 <= x /\ x <= SCALE

(* C3: for every graph with at least two nodes, connectivity,               *)
(* bottleneck_risk, silo_score and efficiency as compute_health computes    *)
(* them (before the scaling by 100) lie in [0, 1].                          *)
C3_SubScoresInUnit ==
    (ReturnedFrom("compute_health") /\ NumberOfNodes(G) >= 2) =>
        /\ InUnit(health.raw.connectivity)
        /\ InUnit(health.raw.bottleneck_risk)
        /\ InUnit(health.raw.silo_score)
        /\ InUnit(health.raw.efficiency)

(* C4: compute_health returns a health_score in [0, 100] and the grade the  *)
(* thresholds 90 / 80 / 65 / 50 give for the returned score.                *)
C4_ScoreAndGrade ==
    ReturnedFrom("compute_health") =>
        LET score == health.health_score
        IN  /\ Tenths(0) <= score /\ score <= Tenths(100)
            /\ health.grade \in {"A", "B", "C", "D", "F"}
            /\ (health.grade = "A") <=> (score >= Tenths(90))
            /\ (health.grade = "B") <=> (Tenths(80) <= score /\ score < Tenths(90))
            /\ (health.grade = "C") <=> (Tenths(65) <= score /\ score < Tenths(80))
            /\ (health.grade = "D") <=> (Tenths(50) <= score /\ score < Tenths(65))
            /\ (health.grade = "F") <=> (score < Tenths(50))

(* A graph with edges scored with the default coefficients above F. *)
C4_Witness ==
    /\ ReturnedFrom("compute_health")
    /\ NumberOfEdges(G) > 0
    /\ coef = DefaultHealthW
    /\ health.grade \in {"B", "C"}

(* C20: for a graph with fewer than two nodes compute_health returns       *)
(* health_score 0, grade F, connectivity 0 and efficiency 0, and            *)
(* bottleneck_risk and silo_score at the maximum of the scale on which the  *)
(* sub-scores of larger graphs are reported (round(x * 100, 1), x in        *)
(* [0, 1]: the maximum is 100).                                             *)
C20_ShortCircuitSameScale ==
    (ReturnedFrom("compute_health") /\ NumberOfNodes(G) < 2) =>
        /\ health.health_score = Tenths(0)
        /\ health.grade = "F"
        /\ health.sub_scores.connectivity = Tenths(0)
        /\ health.sub_scores.efficiency = Tenths(0)
        /\ health.sub_scores.bottleneck_risk = Percent1(SCALE)
        /\ health.sub_scores.silo_score = Percent1(SCALE)

(* The efficiency compute_health would report with the given path_score. *)
EfficiencyWith(path_score) ==
    (6000 * path_score + 4000 * AverageClustering(G)) \div SCALE

(* C29: in compute_health, when the giant weakly-connected component is a   *)
(* single node (a graph of two or more nodes without edges) path_score is   *)
(* 0.5 and the reported avg_path_length is absent; otherwise path_score is  *)
(* max(0, 1 - (avg_path_length - 2) / 8).                                   *)
C29_UndefinedPathIsNeutral ==
    (ReturnedFrom("compute_health") /\ NumberOfNodes(G) >= 2) =>
        LET giant == LargestComponent(G)
        IN  IF Cardinality(giant) = 1
            THEN /\ health.raw.efficiency = EfficiencyWith(NEUTRAL)
                 /\ ~health.stats.avg_path_length.defined
            ELSE /\ health.stats.avg_path_length.defined
                 /\ health.raw.efficiency =
                       EfficiencyWith(Max(0,
                          SCALE - (health.stats.avg_path_length.value - 2 * SCALE) \div 8))

Degenerate(g) == NumberOfNodes(g) < 2 \/ NumberOfEdges(g) = 0

(* C5: on a degenerate graph (fewer than two nodes, or no edge) no scoring  *)
(* component raises, the numerical library calls succeeding.                *)
C5_DegenerateNeverRaises ==
    (pc = "returned" /\ Degenerate(G) /\ libs.power = "ok") => err = "none"

(* C6 as stated: compute_dead_man_switch returns the empty list for every   *)
(* graph with zero nodes or exactly one node.                               *)
C6_EmptyForZeroOrOne ==
    (ReturnedFrom("compute_dead_man_switch") /\ NumberOfNodes(G) <= 1) => dms = <<>>

(* C6 amended: compute_dead_man_switch returns the empty list for the graph *)
(* with zero nodes; for a graph with exactly one node it returns exactly    *)
(* one record, for that node, with redundancy 0 and impact_pct 100, and     *)
(* does not raise.                                                          *)
C6_EmptyForZeroOneRecordForOne ==
    ReturnedFrom("compute_dead_man_switch") =>
        /\ NumberOfNodes(G) = 0 => (dms = <<>> /\ err = "none")
        /\ NumberOfNodes(G) = 1 =>
              /\ err = "none"
              /\ Len(dms) = 1
              /\ dms[1].id \in G.nodes
              /\ dms[1].redundancy = 0
              /\ dms[1].impact_pct = Tenths(100)

C6_Witness ==
    /\ ReturnedFrom("compute_dead_man_switch")
    /\ NumberOfNodes(G) = 1
    /\ Len(dms) = 1

EigenvectorOf(name) ==
    IF name = "compute_centrality"
    THEN [v \in G.nodes |-> centrality[v].eigenvector_centrality]
    ELSE [v \in G.nodes |-> (CHOOSE r \in {dms[i] : i \in DOMAIN dms} : r.id = v).eigenvector]

(* C7: when the power iteration fails to converge, compute_centrality and   *)
(* compute_dead_man_switch return the eigenvector of the direct method, and *)
(* eigenvector 0 for every node when that fails too; neither raises.        *)
C7_EigenvectorFallback ==
    \A name \in {"compute_centrality", "compute_dead_man_switch"} :
        (ReturnedFrom(name) /\ libs.power = "PowerIterationFailedConvergence") =>
            /\ err = "none"
            /\ EigenvectorOf(name) =
                  IF libs.numpy = "ok" THEN libs.eig ELSE [v \in G.nodes |-> 0]

IsInvalid(c) ==
    \/ \E k \in DOMAIN c : c[k] < 0
    \/ Abs(SumOver(DOMAIN c, c) - SCALE) >= SCALE

(* C8: a call of compute_weights, compute_dead_man_switch or compute_health *)
(* with invalid coefficients ends in a configuration error and writes no    *)
(* attribute.                                                               *)
C8_InvalidRejected ==
    \A name \in {"compute_weights", "compute_dead_man_switch", "compute_health"} :
        (ReturnedFrom(name) /\ IsInvalid(coef)) =>
            /\ err = "ConfigurationError"
            /\ \A p \in G.edges : "weight" \notin G.e[p].has

(* The communities of the returned list in whose members list v occurs. *)
CommunitiesOf(v) ==
    {i \in DOMAIN communities.communities :
        v \in Range(communities.communities[i].members)}

(* C11: when detect_communities returns, the key set of the partition is    *)
(* the node set of the graph, every node occurs in the members list of      *)
(* exactly one community and exactly once there, the id of that community   *)
(* is the node's partition value, and the size of every community is the    *)
(* length of its members list.                                              *)
C11_PartitionExclusiveExhaustive ==
    (ReturnedFrom("detect_communities") /\ err = "none") =>
        /\ DOMAIN communities.partition = G.nodes
        /\ \A v \in G.nodes :
              /\ Cardinality(CommunitiesOf(v)) = 1
              /\ \A i \in CommunitiesOf(v) :
                    /\ Occurrences(communities.communities[i].members, v) = 1
                    /\ communities.communities[i].id = communities.partition[v]
        /\ \A i \in DOMAIN communities.communities :
              /\ communities.communities[i].size
                    = Len(communities.communities[i].members)
              /\ Range(communities.communities[i].members) \subseteq G.nodes

(* Three nodes in two communities, one of them with two members. *)
C11_Witness ==
    /\ ReturnedFrom("detect_communities")
    /\ err = "none"
    /\ NumberOfNodes(G) = 3
    /\ Len(communities.communities) = 2
    /\ \E i \in DOMAIN communities.communities : communities.communities[i].size = 2

(* The centers of g if g is a star with at least k leaves: an edge in both  *)
(* directions between the center and every other node, and no other edge.   *)
StarCenters(g, k) ==
    {c \in g.nodes :
        /\ NumberOfNodes(g) >= k + 1
        /\ g.edges = {<<c, l>> : l \in g.nodes \ {c}}
                        \cup {<<l, c>> : l \in g.nodes \ {c}}}

(* C12: the records compute_dead_man_switch returns are in non-increasing   *)
(* order of dms_score, and on a star with at least three leaves (weights    *)
(* not negative) the first record is the center's.                          *)
C12_SortedCenterFirst ==
    (ReturnedFrom("compute_dead_man_switch") /\ err = "none") =>
        /\ \A i \in 1..(Len(dms) - 1) : dms[i].dms_score >= dms[i + 1].dms_score
        /\ (\A k \in DOMAIN coef : coef[k] >= 0) =>
              \A c \in StarCenters(G, 3) : dms[1].id = c

(* A star with three leaves, scored with the default weights, the leaves'   *)
(* eigenvector centrality above the center's.                               *)
C12_Witness ==
    /\ ReturnedFrom("compute_dead_man_switch")
    /\ err = "none"
    /\ coef = DefaultDmsW
    /\ StarCenters(G, 3) # {}
    /\ Len(dms) = 4
    /\ dms[1].eigenvector < dms[2].eigenvector
    /\ dms[1].dms_score > dms[2].dms_score

(* C21: on a star with at least three leaves (an edge in both directions    *)
(* between the center and every leaf, all counts equal) compute_centrality  *)
(* gives the center a betweenness_centrality not below any leaf's and a     *)
(* degree_centrality above every leaf's, and every node's record carries    *)
(* all six metric keys.                                                     *)
C21_StarCenterHighest ==
    (ReturnedFrom("compute_centrality") /\ err = "none") =>
        /\ DOMAIN centrality = G.nodes
        /\ \A v \in G.nodes :
              centrality[v].keys =
                 {"in_degree_centrality", "out_degree_centrality",
                  "degree_centrality", "betweenness_centrality",
                  "eigenvector_centrality", "pagerank"}
        /\ \A c \in StarCenters(G, 3) : \A l \in G.nodes \ {c} :
              /\ centrality[c].betweenness_centrality
                    >= centrality[l].betweenness_centrality
              /\ centrality[c].degree_centrality
                    > centrality[l].degree_centrality

(* compute_centrality has returned on a star with three leaves: the center  *)
(* lies on every leaf-to-leaf shortest path, the leaves on none.            *)
C21_Witness ==
    /\ ReturnedFrom("compute_centrality")
    /\ err = "none"
    /\ \E c \in StarCenters(G, 3) :
          /\ NumberOfNodes(G) = 4
          /\ centrality[c].betweenness_centrality = SCALE
          /\ centrality[c].degree_centrality = 2 * SCALE
          /\ \A l \in G.nodes \ {c} :
                /\ centrality[l].betweenness_centrality = 0
                /\ centrality[l].degree_centrality = 2 * (SCALE \div 3)

(* Twice the median of the betweenness values of g: the middle value of an  *)
(* odd number of values counted twice, the sum of the two middle values of  *)
(* an even number.                                                          *)
ValueAtRank(g, betweenness, k) ==
    CHOOSE x \in {betweenness[v] : v \in g.nodes} :
        /\ Cardinality({v \in g.nodes : betweenness[v] <= x}) >= k
        /\ Cardinality({v \in g.nodes : betweenness[v] < x}) < k

TwiceMedian(g, betweenness) ==
    LET n == NumberOfNodes(g)
    IN  IF n % 2 = 1 THEN 2 * ValueAtRank(g, betweenness, n \div 2 + 1)
        ELSE ValueAtRank(g, betweenness, n \div 2)
                + ValueAtRank(g, betweenness, n \div 2 + 1)

(* The ways g is two fully connected clusters joined by one edge pair. *)
ClusterSplits(g) ==
    {t \in (SUBSET g.nodes) \X g.nodes \X g.nodes :
        /\ t[1] # {} /\ t[1] # g.nodes
        /\ t[2] \in t[1] /\ t[3] \in g.nodes \ t[1]
        /\ g.edges = {p \in (t[1] \X t[1]) \cup ((g.nodes \ t[1]) \X (g.nodes \ t[1])) :
                         p[1] # p[2]}
                        \cup {<<t[2], t[3]>>, <<t[3], t[2]>>}}

InterCommunityLinks(g, partition, comm) ==
    {e \in UndirectedEdges(g) :
        \E m \in Range(comm.members) : \E v \in e \ {m} :
            m \in e /\ partition[v] # comm.id}

(* Members with at least one neighbour in a different community. *)
OutwardMembers(g, partition, comm) ==
    {m \in Range(comm.members) :
        \E v \in Predecessors(g, m) \cup Successors(g, m) :
            partition[v] # comm.id}

(* C25: in label_communities the inter_edges of every community is the     *)
(* number of edges joining a member to a node of a different community, and *)
(* bridge_ratio is the fraction of members with a neighbour in a different  *)
(* community.                                                               *)
C25_InterEdgesCounted ==
    (ReturnedFrom("detect_communities") /\ err = "none") =>
        \A i \in DOMAIN communities.communities :
            LET comm == communities.communities[i]
                s == CommunityStats(G, communities.partition,
                                    BetweennessCentrality(G), comm)
            IN  /\ s.inter_edges
                      = Cardinality(InterCommunityLinks(G, communities.partition, comm))
                /\ s.bridge_ratio
                      = (SCALE * Cardinality(
                            OutwardMembers(G, communities.partition, comm)))
                           \div comm.size

----------------------------------------------------------------------------
(* compute_dead_man_switch statement by statement: the caller's graph G is  *)
(* the object the function receives; each iteration of the loop makes the   *)
(* graph object G_removed, removes the node from it and measures it.  The   *)
(* graph of the model does not record the order of G.nodes(), so the loop   *)
(* takes the nodes in any order.                                            *)

DmsPcs == {"dms_loop", "dms_copied", "dms_removed"}

Processed == {dms[i].id : i \in DOMAIN dms}

(* Lines 21-43: the guard and the centrality measures. *)
DmsEnter ==
    /\ pc = "graph"
    /\ \E lib \in LibOutcomes(G) :
         /\ libs' = lib
         /\ err' = IF NumberOfNodes(G) = 0 THEN "none" ELSE DmsEigenvector(G, lib).exc
    /\ coef' = DefaultDmsW
    /\ dms' = <<>>
    /\ IF NumberOfNodes(G) = 0 \/ err' # "none"
       THEN Returned("compute_dead_man_switch")
       ELSE pc' = "dms_loop" /\ UNCHANGED trace
    /\ UNCHANGED <<emails, build_params, build_locals, G, communities, centrality,
                   waste, health, dms_locals>>

(* Lines 46 and 51: the next node, G_removed = G.copy() *)
DmsCopy ==
    /\ pc = "dms_loop"
    /\ \E v \in G.nodes \ Processed :
         /\ dms_node' = <<v>>
         /\ G_removed' = GraphCopy(G)
    /\ pc' = "dms_copied"
    /\ UNCHANGED <<emails, build_params, build_locals, G, coef, libs, results, err, trace>>

(* Line 52: G_removed.remove_node(node) changes the object G_removed names. *)
DmsRemoveNode ==
    /\ pc = "dms_copied"
    /\ G_removed' = [G_removed EXCEPT !.graph = RemoveNode(@, dms_node[1])]
    /\ G' = IF G_removed.shared THEN RemoveNode(G, dms_node[1]) ELSE G
    /\ pc' = "dms_removed"
    /\ UNCHANGED <<emails, build_params, build_locals, coef, libs, results, err, trace,
                   dms_node>>

(* Lines 54-59, on the graph object of this iteration; total_nodes was     *)
(* taken before the loop.                                                  *)
MeasuredReachablePct(removed, total_nodes) ==
    IF NumberOfNodes(removed) > 0
    THEN (SCALE * Cardinality(LargestComponent(removed))) \div (total_nodes - 1)
    ELSE 0

(* Lines 47-78: the record of this iteration is appended.  total_nodes,    *)
(* betweenness and eigenvector are locals set before the loop (lines 25-43): *)
(* total_nodes counts the nodes done, this one and the ones to come.        *)
DmsAppend ==
    /\ pc = "dms_removed"
    /\ LET total_nodes == Len(dms) + Cardinality((G.nodes \cup {dms_node[1]}) \ Processed)
           betweenness == BetweennessCentrality(G)
           eigenvector == DmsEigenvector(G, libs).value
           v == dms_node[1]
       IN  dms' = Append(dms,
               DmsRecordWith(DOMAIN eigenvector, coef,
                   [u \in DOMAIN eigenvector |->
                       IF u \in DOMAIN betweenness THEN betweenness[u] ELSE 0],
                   eigenvector, v,
                   MeasuredReachablePct(G_removed.graph, total_nodes)))
    /\ dms_node' = <<>>
    /\ pc' = "dms_loop"
    /\ UNCHANGED <<emails, build_params, build_locals, G, coef, libs, communities,
                   centrality, waste, health, err, trace, G_removed>>

(* list.sort(key=dms_score, reverse=True): stable, equal scores stay in    *)
(* the order of the loop.                                                  *)
RECURSIVE InsertByScore(_, _)
InsertByScore(sorted, r) ==
    IF sorted = <<>> THEN <<r>>
    ELSE IF Head(sorted).dms_score >= r.dms_score
         THEN <<Head(sorted)>> \o InsertByScore(Tail(sorted), r)
         ELSE <<r>> \o sorted

RECURSIVE SortByScore(_)
SortByScore(recs) ==
    IF recs = <<>> THEN <<>>
    ELSE InsertByScore(SortByScore(SubSeq(recs, 1, Len(recs) - 1)), recs[Len(recs)])

(* Lines 80-81: the loop is over; sort and return. *)
DmsReturn ==
    /\ pc = "dms_loop"
    /\ G.nodes \subseteq Processed
    /\ dms' = SortByScore(dms)
    /\ Returned("compute_dead_man_switch")
    /\ UNCHANGED <<emails, build_params, build_locals, G, coef, libs, communities,
                   centrality, waste, health, err, dms_locals>>

NextRemoval ==
    \/ AddNode
    \/ AddGraphEdge
    \/ DmsEnter
    \/ DmsCopy
    \/ DmsRemoveNode
    \/ DmsAppend
    \/ DmsReturn
SpecRemoval == InitMetrics /\ [][NextRemoval]_vars

(* C13: no step of compute_dead_man_switch changes the caller's graph (node *)
(* set, edge set, node and edge attributes), and when it returns there is   *)
(* one record per node, each equal to the record that node gets when it     *)
(* alone is removed from the caller's graph, whatever the order of the      *)
(* loop.                                                                    *)
C13_SharedGraphUnchanged ==
    [][(pc \in DmsPcs \/ pc' \in DmsPcs) =>
          /\ G' = G
          /\ (pc' = "returned" /\ err' = "none") =>
                /\ Len(dms') = NumberOfNodes(G)
                /\ {dms'[i].id : i \in DOMAIN dms'} = G.nodes
                /\ \A i \in DOMAIN dms' :
                      dms'[i] = DmsRecord(G, coef, BetweennessCentrality(G),
                                          DmsEigenvector(G, libs).value, dms'[i].id)]_vars

(* The loop has run over three nodes, one of which holds the other two     *)
(* together.                                                               *)
C13_Witness ==
    /\ pc = "returned"
    /\ trace = <<"compute_dead_man_switch">>
    /\ NumberOfNodes(G) = 3
    /\ Len(dms) = 3
    /\ G_removed.graph # G
    /\ \E i \in DOMAIN dms : dms[i].redundancy < SCALE

----------------------------------------------------------------------------
(* run_pipeline (pipeline.py), steps 2 to 5: parse, build the graph, weigh, *)
(* enrich with sentiment, weigh again.                                      *)

MaxCorpus == 6

(* Messages of the corpus: mail between A and B, sent on either day, with   *)
(* either polarity.                                                         *)
PipelineMessages ==
    {Email(p[1], <<p[2]>>, <<>>, <<>>, "Hello", d, pol) :
        p \in {<<A, B>>, <<B, A>>}, d \in Dates, pol \in Polarities}

(* parse_all_emails yields the sent folders mailbox by mailbox, the         *)
(* mailboxes in sorted order: the list is grouped by sender.                *)
ParseEmail(limit) ==
    /\ pc = "parse"
    /\ Len(emails) < limit
    /\ \E m \in PipelineMessages :
         /\ IF emails = <<>> THEN TRUE
            ELSE Index(emails[Len(emails)].sender) <= Index(m.sender)
         /\ emails' = Append(emails, m)
    /\ UNCHANGED <<build_params, pc, build_locals, G, coef, libs, results, err, trace, dms_locals>>

(* G = build_graph(emails, min_emails=min_emails) *)
StepBuildGraph ==
    /\ pc = "parse"
    /\ \E threshold \in 1..MaxThreshold :
         LET acc == ProcessEmails(EmptyAcc, emails, TRUE)
         IN  /\ min_emails' = threshold
             /\ edge_data' = acc.edge_data
             /\ node_sent' = acc.node_sent
             /\ node_received' = acc.node_received
             /\ G' = Materialize(acc, threshold)
    /\ pc' = "weights"
    /\ trace' = Append(trace, "build_graph")
    /\ UNCHANGED <<emails, enron_only, coef, libs, results, err, dms_locals>>

(* G = compute_weights(G) *)
StepComputeWeights ==
    /\ pc = "weights"
    /\ G' = compute_weights(G, DefaultCoef, NoDate, DECAY_DAYS, LastDay)
    /\ pc' = "sentiment"
    /\ trace' = Append(trace, "compute_weights")
    /\ UNCHANGED <<emails, build_params, build_locals, coef, libs, results, err, dms_locals>>

(* G = enrich_graph_with_sentiment(G, emails) *)
StepEnrich ==
    /\ pc = "sentiment"
    /\ G' = enrich_graph_with_sentiment(G, emails)
    /\ pc' = "reweight"
    /\ trace' = Append(trace, "enrich_graph_with_sentiment")
    /\ UNCHANGED <<emails, build_params, build_locals, coef, libs, results, err, dms_locals>>

(* G = compute_weights(G), with sentiment included *)
StepReweight ==
    /\ pc = "reweight"
    /\ G' = compute_weights(G, DefaultCoef, NoDate, DECAY_DAYS, LastDay)
    /\ pc' = "metrics"
    /\ trace' = Append(trace, "compute_weights")
    /\ UNCHANGED <<emails, build_params, build_locals, coef, libs, results, err, dms_locals>>

InitWeights == InitState("parse")
NextWeights ==
    \/ ParseEmail(MaxCorpus)
    \/ StepBuildGraph
    \/ StepComputeWeights
    \/ StepEnrich
    \/ StepReweight
SpecWeights == InitWeights /\ [][NextWeights]_vars

(* C2: after both weight passes of the pipeline the weight of every edge    *)
(* lies in [0, 1].                                                          *)
C2_WeightInUnit ==
    pc = "metrics" => \A p \in G.edges : InUnit(G.e[p].weight)

(* A later call of compute_weights on the graph as it is now, made at a     *)
(* later time of day.                                                       *)
WeightsAgain == compute_weights(G, DefaultCoef, NoDate, DECAY_DAYS, LastDay + 365)

SentimentOf(g, u, v) == IF HasEdge(g, u, v) THEN g.e[<<u, v>>].sentiment ELSE 0

(* C26: after enrich_graph_with_sentiment the sentiment_asymmetry of every  *)
(* edge u -> v is the absolute difference between the sentiment of u -> v   *)
(* and that of v -> u, taken as 0 if v -> u is not an edge; so the two      *)
(* edges of a pair carry the same value and a one-directional edge carries  *)
(* the absolute value of its own sentiment.                                 *)
C26_AsymmetryIsAbsoluteDifference ==
    pc \in {"reweight", "metrics"} =>
        \A p \in G.edges :
            LET d == SentimentOf(G, p[1], p[2]) - SentimentOf(G, p[2], p[1])
            IN  /\ "sentiment_asymmetry" \in G.e[p].has
                /\ G.e[p].sentiment_asymmetry = (IF d < 0 THEN 0 - d ELSE d)
                /\ HasEdge(G, p[2], p[1]) =>
                      G.e[<<p[2], p[1]>>].sentiment_asymmetry
                         = G.e[p].sentiment_asymmetry
                /\ ~HasEdge(G, p[2], p[1]) =>
                      \/ G.e[p].sentiment_asymmetry = G.e[p].sentiment
                      \/ G.e[p].sentiment_asymmetry = 0 - G.e[p].sentiment

(* An enriched graph with an edge pair of opposite sentiment. *)
C26_Witness ==
    /\ pc = "reweight"
    /\ HasEdge(G, A, B) /\ HasEdge(G, B, A)
    /\ G.e[<<A, B>>].sentiment > 0
    /\ G.e[<<B, A>>].sentiment < 0
    /\ G.e[<<A, B>>].sentiment_asymmetry > SCALE

----------------------------------------------------------------------------
(* A caller that builds the graph of a message list and computes the waste  *)
(* of the same list (as the tests do).                                      *)

(* Eleven copies of B. *)
ManyB == [i \in 1..11 |-> B]

(* Plain messages both ways, a reply to four recipients, a reply with one   *)
(* To and eleven Cc recipients, a reply to one outside recipient, a message *)
(* from outside.                                                            *)
WasteMessages ==
    {Email(A, <<B>>, <<>>, <<>>, "Hello", FirstDay, 0),
     Email(B, <<A>>, <<>>, <<>>, "Hello", FirstDay, 0),
     Email(A, <<B>>, <<B, X, B>>, <<>>, "Re: Hello", FirstDay, 0),
     Email(A, <<B>>, ManyB, <<>>, "RE: Hello", FirstDay, 0),
     Email(B, <<X>>, <<>>, <<>>, "Re: Hello", FirstDay, 0),
     Email(X, <<A>>, <<>>, <<>>, "Hello", FirstDay, 0)}

DrawWasteEmail ==
    /\ pc = "draw"
    /\ Len(emails) < MaxEmails
    /\ \E m \in WasteMessages : emails' = Append(emails, m)
    /\ UNCHANGED <<build_params, pc, build_locals, G, coef, libs, results, err, trace,
                   dms_locals>>

NextWaste == DrawWasteEmail \/ CallBuildGraph \/ CallComputeWaste
SpecWaste == InitBuild /\ [][NextWaste]_vars

WasteReturned == pc = "returned" /\ trace = <<"build_graph", "compute_waste">>

(* C19: compute_waste returns one record per node of the graph, with a      *)
(* waste_score in [0, 100] and broadcast_ratio, reply_all_ratio and         *)
(* orphan_ratio in [0, 1], for every message list and threshold.            *)
C19_WasteInRange ==
    WasteReturned =>
        /\ Len(waste) = NumberOfNodes(G)
        /\ {waste[i].id : i \in DOMAIN waste} = G.nodes
        /\ \A i \in DOMAIN waste :
              /\ Tenths(0) <= waste[i].waste_score
              /\ waste[i].waste_score <= Tenths(100)
              /\ InUnit(waste[i].broadcast_ratio)
              /\ InUnit(waste[i].reply_all_ratio)
              /\ InUnit(waste[i].orphan_ratio)

(* A sender at the top of the range (more than ten Cc per message, every    *)
(* message a broadcast and a reply to all, no edge back) next to a node     *)
(* that sent nothing.                                                       *)
C19_Witness ==
    /\ WasteReturned
    /\ \E i \in DOMAIN waste :
          waste[i].waste_score = Tenths(100) /\ waste[i].overproduction > 10 * SCALE
    /\ \E i \in DOMAIN waste : waste[i].waste_score = 0

(* Messages of the list sent by v. *)
SentBy(v) == Cardinality({i \in DOMAIN emails : emails[i].sender = v})

(* Addresses v has an edge to, and those of them without an edge back. *)
OutNeighbours(v) == {n \in Addrs : <<v, n>> \in G.edges}

Unanswered(v) == {n \in OutNeighbours(v) : <<n, v>> \notin G.edges}

----------------------------------------------------------------------------
(* A caller that builds the graph of a message list and then weighs it or   *)
(* enriches it with the sentiment of the same list (as the tests do).       *)

(* Messages between A and B of either polarity, dated on either day or not  *)
(* at all; one with B in two recipient classes and C in a third; one to C   *)
(* twice without a date; one to an outside address and the sender itself.   *)
CallerMessages ==
    {Email(A, <<B>>, <<>>, <<>>, "Hello", FirstDay, SCALE),
     Email(A, <<B>>, <<>>, <<>>, "Hello", LastDay, 0 - SCALE),
     Email(A, <<B>>, <<>>, <<>>, "Hello", NoDate, 0),
     Email(B, <<A>>, <<>>, <<>>, "Hello", FirstDay, 0 - SCALE),
     Email(A, <<B>>, <<B>>, <<C>>, "Hello", FirstDay, SCALE),
     Email(A, <<C>>, <<C>>, <<>>, "Hello", NoDate, 0),
     Email(B, <<X, B>>, <<>>, <<>>, "Hello", LastDay, SCALE)}

DrawCallerEmail ==
    /\ pc = "draw"
    /\ Len(emails) < MaxEmails
    /\ \E m \in CallerMessages : emails' = Append(emails, m)
    /\ UNCHANGED <<build_params, pc, build_locals, G, coef, libs, results, err, trace,
                   dms_locals>>

NextCaller == DrawCallerEmail \/ CallBuildGraph \/ CallComputeWeights \/ CallEnrich
SpecCaller == InitBuild /\ [][NextCaller]_vars

WeightsReturned == pc = "returned" /\ trace = <<"build_graph", "compute_weights">>

EnrichReturned ==
    pc = "returned" /\ trace = <<"build_graph", "enrich_graph_with_sentiment">>

(* The largest email_count and the latest last_email over the edges of G. *)
LargestCount ==
    CHOOSE c \in {G.e[p].email_count : p \in G.edges} :
        \A p \in G.edges : G.e[p].email_count <= c

Timestamped == {p \in G.edges : G.e[p].last_email # NoDate}

(* C27: after compute_weights without a reference date, norm_frequency of   *)
(* every edge is its email_count over the largest email_count (in (0, 1],   *)
(* 1 on an edge of the largest count); norm_recency is 0.5 on every edge    *)
(* without a last_email, lies in (0, 1] on every edge with one, is 1 on the *)
(* edge with the latest last_email and is greater for the edge with the     *)
(* later last_email of any two.                                             *)
C27_NormalisedFrequencyAndRecency ==
    WeightsReturned =>
        \A p \in G.edges :
            /\ G.e[p].norm_frequency = (G.e[p].email_count * SCALE) \div LargestCount
            /\ 0 < G.e[p].norm_frequency /\ G.e[p].norm_frequency <= SCALE
            /\ G.e[p].email_count = LargestCount => G.e[p].norm_frequency = SCALE
            /\ p \notin Timestamped => G.e[p].norm_recency = NEUTRAL
            /\ p \in Timestamped =>
                  /\ 0 < G.e[p].norm_recency /\ G.e[p].norm_recency <= SCALE
                  /\ (\A q \in Timestamped : G.e[q].last_email <= G.e[p].last_email)
                        => G.e[p].norm_recency = SCALE
                  /\ \A q \in Timestamped :
                        G.e[q].last_email < G.e[p].last_email
                           => G.e[q].norm_recency < G.e[p].norm_recency

(* A weighed graph with an undated edge of the largest count, an edge last  *)
(* seen on the first day and an edge last seen on the last day.             *)
C27_Witness ==
    /\ WeightsReturned
    /\ \E p, q, r \in G.edges :
          /\ G.e[p].last_email = NoDate /\ G.e[p].norm_recency = NEUTRAL
          /\ G.e[q].last_email = FirstDay /\ G.e[q].norm_recency < NEUTRAL
          /\ G.e[r].last_email = LastDay /\ G.e[r].norm_recency = SCALE
          /\ G.e[p].norm_frequency = SCALE /\ G.e[q].norm_frequency < SCALE

(* C30: when enrich_graph_with_sentiment runs with the message list the     *)
(* graph was built from, every edge receives a sentiment and a              *)
(* sentiment_count, and the sentiment_count is the edge's email_count; so   *)
(* a later compute_weights reads the edge's own sentiment, never the        *)
(* neutral default.                                                         *)
C30_EveryEdgeEnriched ==
    EnrichReturned =>
        \A p \in G.edges :
            /\ {"sentiment", "sentiment_count"} \subseteq G.e[p].has
            /\ G.e[p].sentiment_count = G.e[p].email_count
            /\ G.e[p].sentiment = RoundedMean(EdgeSentiments(emails, p[1], p[2]))
            /\ GetSentiment(G.e[p], NEUTRAL) = G.e[p].sentiment

(* An enriched graph built with the domain filter from two messages, one of *)
(* them naming B in two recipient classes: the edge A -> B counts three     *)
(* deliveries and carries a sentiment other than the neutral default.       *)
C30_Witness ==
    /\ EnrichReturned
    /\ enron_only
    /\ Len(emails) = 2
    /\ HasEdge(G, A, B)
    /\ G.e[<<A, B>>].email_count = 3
    /\ G.e[<<A, B>>].sentiment_count = 3
    /\ G.e[<<A, B>>].sentiment # NEUTRAL

----------------------------------------------------------------------------
(* label_communities on communities of every size: the caller passes the    *)
(* community records (size and density are read from the record), a graph,  *)
(* a partition and the betweenness; the model draws what lines 90-116       *)
(* compute from them.                                                       *)

MaxCommunities == 2

(* size, density (fixed point), members with a neighbour in another         *)
(* community, mean degree, mean betweenness: values on both sides of every  *)
(* threshold of the rules.  A community of fewer than 5 is labelled by its  *)
(* size alone.                                                              *)
CommunityProfiles ==
    {p \in [size : {2, 4, 5, 100, 501}, density : {100, 1000, 2000},
            bridge_count : {0, 2, 60}, avg_degree : {10 * SCALE, 20 * SCALE},
            avg_betweenness : {0, 1000}] :
        /\ p.bridge_count <= p.size
        /\ p.size < 5 => (p.density = 1000 /\ p.bridge_count = 0
                            /\ p.avg_degree = 10 * SCALE)
        /\ p.size > 5 => p.bridge_count # 2}

(* Lines 116-126: the statistics record of one community. *)
StatsOf(id, p) ==
    [id |-> id, size |-> p.size, density |-> p.density,
     avg_betweenness |-> p.avg_betweenness, avg_degree |-> p.avg_degree,
     bridge_ratio |-> (SCALE * p.bridge_count) \div p.size,
     inter_edges |-> p.bridge_count]

NoLabels == [stats |-> <<>>, labels |-> <<>>]

(* The caller adds a community; ids count from 0 in list order. *)
DrawCommunity ==
    /\ pc = "stats"
    /\ LET sofar == IF communities = NoResult THEN NoLabels ELSE communities
       IN  /\ Len(sofar.stats) < MaxCommunities
           /\ \E p \in CommunityProfiles :
                communities' =
                    [sofar EXCEPT !.stats = Append(@, StatsOf(Len(sofar.stats), p))]
    /\ UNCHANGED <<emails, build_params, pc, build_locals, G, coef, libs, centrality,
                   dms, waste, health, err, trace, dms_locals>>

(* label_communities(communities, G, partition, betweenness) *)
CallLabelCommunities ==
    /\ pc = "stats"
    /\ LET sofar == IF communities = NoResult THEN NoLabels ELSE communities
       IN  communities' = [sofar EXCEPT !.labels = LabelsFromStats(Range(sofar.stats))]
    /\ err' = "none"
    /\ Returned("label_communities")
    /\ UNCHANGED <<emails, build_params, build_locals, G, coef, libs, centrality,
                   dms, waste, health, dms_locals>>

InitLabels == InitState("stats")
NextLabels == DrawCommunity \/ CallLabelCommunities
SpecLabels == InitLabels /\ [][NextLabels]_vars

(* The rules as the specification lists them; `before` is the number of     *)
(* communities earlier in the rank order that no rule matched.              *)
ListedLabel(rank, t, before) ==
    IF t.size < 3 THEN [name |-> "Working Pair", letter |-> ""]
    ELSE IF t.size < 5 THEN [name |-> "Small Team", letter |-> ""]
    ELSE IF rank = 0 /\ 10 * t.bridge_ratio > 3 * SCALE
         THEN [name |-> "Executive & Strategy", letter |-> ""]
    ELSE IF 100 * t.density > 15 * SCALE /\ t.size < 100
         THEN [name |-> "Specialized Unit", letter |-> ""]
    ELSE IF t.size > 500 /\ 100 * t.density < 2 * SCALE
         THEN [name |-> "Extended Network", letter |-> ""]
    ELSE IF t.avg_degree > 15 * SCALE /\ t.inter_edges > 50
         THEN [name |-> "Trading & Communications", letter |-> ""]
    ELSE IF 100 * t.density > 5 * SCALE /\ 20 < t.size /\ t.size < 500
         THEN [name |-> "Core Operations", letter |-> ""]
    ELSE [name |-> "Operations Group", letter |-> OpsLetters[before + 1]]

Unmatched(rank, t) == ListedLabel(rank, t, 0).name = "Operations Group"

(* The rank orders the sort can produce: descending mean betweenness, equal *)
(* means in list order.                                                     *)
RankOrders(stats) ==
    {r \in [1..Len(stats) -> 1..Len(stats)] :
        /\ \A i, j \in 1..Len(stats) : i # j => r[i] # r[j]
        /\ \A i, j \in 1..Len(stats) :
              i < j => \/ stats[r[i]].avg_betweenness > stats[r[j]].avg_betweenness
                       \/ /\ stats[r[i]].avg_betweenness = stats[r[j]].avg_betweenness
                          /\ r[i] < r[j]}

(* C16: label_communities gives every community exactly one label, the     *)
(* label of the first rule of the list that matches, the communities taken  *)
(* in descending order of mean betweenness; the communities no rule matches *)
(* get Operations Group A, B, C, ... in that order, no two the same.        *)
C16_FirstMatchInRankOrder ==
    ReturnedFrom("label_communities") =>
        LET stats == communities.stats
            labels == communities.labels
        IN  /\ DOMAIN labels = {stats[i].id : i \in DOMAIN stats}
            /\ \A r \in RankOrders(stats) :
                  \A i \in DOMAIN stats :
                      labels[stats[r[i]].id] =
                          ListedLabel(i - 1, stats[r[i]],
                              Cardinality({j \in 1..(i - 1) :
                                  Unmatched(j - 1, stats[r[j]])}))
            /\ RankOrders(stats) # {}
            /\ \A i, j \in DOMAIN stats :
                  (i # j /\ labels[stats[i].id].name = "Operations Group")
                      => labels[stats[i].id] # labels[stats[j].id]

(* Two communities that no rule matches, the second in the list ranked      *)
(* first.                                                                   *)
C16_Witness ==
    /\ ReturnedFrom("label_communities")
    /\ Len(communities.stats) = 2
    /\ communities.stats[1].avg_betweenness < communities.stats[2].avg_betweenness
    /\ communities.labels[0] = [name |-> "Operations Group", letter |-> "B"]
    /\ communities.labels[1] = [name |-> "Operations Group", letter |-> "A"]

----------------------------------------------------------------------------
(* run_pipeline, steps 2 to 6: the steps above, then the metrics.  An       *)
(* exception that leaves a stage leaves run_pipeline.                       *)

(* Variant: the criticality scores are computed before the communities. *)
StageAfter_DmsFirst(stage) ==
    CASE stage = "metrics" -> "dms"
      [] stage = "dms" -> "communities"
      [] stage = "communities" -> "waste"
      [] stage = "waste" -> "health"
      [] stage = "health" -> "export"

(* Lines 81-94: the statement that follows the one at `stage`; pc names the *)
(* statement to run next ("metrics": compute_centrality).                   *)
StageAfter(stage) ==
    CASE stage = "metrics" -> "communities"
      [] stage = "communities" -> "dms"
      [] stage = "dms" -> "waste"
      [] stage = "waste" -> "health"
      [] stage = "health" -> "export"

Completed(name, exc) ==
    /\ err' = exc
    /\ pc' = IF exc = "none" THEN StageAfter(pc) ELSE "failed"
    /\ trace' = IF exc = "none" THEN Append(trace, name) ELSE trace

(* centrality = compute_centrality(G) *)
StepCentrality ==
    /\ pc = "metrics"
    /\ \E lib \in LibOutcomes(G) :
         LET r == compute_centrality(G, lib)
         IN  /\ libs' = lib
             /\ centrality' = r.result
             /\ Completed("compute_centrality", r.exc)
    /\ UNCHANGED <<emails, build_params, build_locals, G, coef, communities, dms,
                   waste, health, dms_locals>>

(* communities = detect_communities(G) *)
StepCommunities ==
    /\ pc = "communities"
    /\ \E louvain \in Partitions(G.nodes) :
         LET r == detect_communities(G, louvain)
         IN  /\ communities' = r.result
             /\ Completed("detect_communities", r.exc)
    /\ UNCHANGED <<emails, build_params, build_locals, G, coef, libs, centrality, dms,
                   waste, health, dms_locals>>

(* dms = compute_dead_man_switch(G): the power iteration is the call that   *)
(* compute_centrality made, on the same graph, and ends the same way; the   *)
(* direct method is called anew when the iteration fails.                   *)
StepDeadManSwitch ==
    /\ pc = "dms"
    /\ \E lib \in LibOutcomes(G) :
         /\ lib.power = libs.power
         /\ lib.power = "ok" => lib = libs
         /\ LET r == compute_dead_man_switch(G, DefaultDmsW, lib)
            IN  /\ libs' = lib
                /\ dms' = r.result
                /\ Completed("compute_dead_man_switch", r.exc)
    /\ UNCHANGED <<emails, build_params, build_locals, G, coef, communities, centrality,
                   waste, health, dms_locals>>

(* waste = compute_waste(G, emails) *)
StepWaste ==
    /\ pc = "waste"
    /\ waste' = compute_waste(G, emails, BROADCAST_THRESHOLD)
    /\ Completed("compute_waste", "none")
    /\ UNCHANGED <<emails, build_params, build_locals, G, coef, libs, communities,
                   centrality, dms, health, dms_locals>>

(* health = compute_health(G, communities): NameError when the name         *)
(* communities is not bound yet.                                            *)
StepHealth ==
    /\ pc = "health"
    /\ IF communities = NoResult
       THEN Completed("compute_health", "NameError") /\ UNCHANGED health
       ELSE /\ health' = compute_health(G, communities, DefaultHealthW)
            /\ Completed("compute_health", "none")
    /\ UNCHANGED <<emails, build_params, build_locals, G, coef, libs, communities,
                   centrality, dms, waste, dms_locals>>

Init == InitState("parse")
Next ==
    \/ ParseEmail(MaxEmails)
    \/ StepBuildGraph
    \/ StepComputeWeights
    \/ StepEnrich
    \/ StepReweight
    \/ StepCentrality
    \/ StepCommunities
    \/ StepDeadManSwitch
    \/ StepWaste
    \/ StepHealth
Spec == Init /\ [][Next]_vars

(* The stages in the order of the specification. *)
PipelineOrder ==
    <<"build_graph", "compute_weights", "enrich_graph_with_sentiment",
      "compute_weights", "compute_centrality", "detect_communities",
      "compute_dead_man_switch", "compute_waste", "compute_health">>

(* C15: the stages of run_pipeline complete in the order build_graph,       *)
(* compute_weights, enrich_graph_with_sentiment, compute_weights,           *)
(* compute_centrality, detect_communities, compute_dead_man_switch,         *)
(* compute_waste, compute_health: at every moment the completed stages are  *)
(* a prefix of that order, each step completes exactly the next stage of    *)
(* it, and the health result is computed from the communities that          *)
(* detect_communities returned.                                             *)
C15_StagesInSequence ==
    [][/\ Len(trace') <= Len(PipelineOrder)
       /\ trace' = SubSeq(PipelineOrder, 1, Len(trace'))
       /\ Len(trace') \in {Len(trace), Len(trace) + 1}
       /\ (Len(trace') = Len(PipelineOrder)) =>
             /\ communities' # NoResult
             /\ health' = compute_health(G', communities', DefaultHealthW)]_vars

(* All nine stages have completed, on a graph with an edge. *)
C15_Witness ==
    /\ pc = "export"
    /\ trace = PipelineOrder
    /\ NumberOfEdges(G) > 0
    /\ health # NoResult

====
